---- MODULE Spec2Model ----
(***************************************************************************)
(* listky: accounts with PIN login and progressive lockout                 *)
(* (core/auth.py, core/api), lists with privacy-preserving view counts     *)
(* and trending (core/privacy.py, core/api), over the three relations of   *)
(* core/database.py, the session map of core/auth.py, the login and list  *)
(* handlers of main.py and the plugin hooks of core/plugins.py.            *)
(*                                                                         *)
(* Strings are sequences of one-character strings, so that lower(), the    *)
(* validation regexes and the salted hashes are computed, not assumed.     *)
(* Time is counted in minutes; a calendar date is a day number.            *)
(***************************************************************************)
EXTENDS Integers, Sequences, FiniteSets, Bags, TLC

VARIABLES
    users,      \* relation users: username -> row
    lists,      \* relation lists: set of rows, id is the primary key
    views,      \* relation views: bag of rows (list_id, view_date, ip_hash)
    nextId,     \* sqlite_sequence of lists.id (AUTOINCREMENT)
    now,        \* wall clock, minutes
    call,       \* the last core-API call: operation, arguments, outcome
    trail,      \* history per user: wrong-PIN calls since the last success,
                \* and when the last one was refused as invalid
    sessions,   \* active_sessions: token -> [username, expires]
    issued,     \* history per token: who create_session gave it to and
                \* when, until clear_session is called on it
    tasks,      \* the request handlers in flight: operation, arguments,
                \* position in the code, locals, outcome
    plugins     \* _plugins: event -> the callbacks registered, in order

\* call stands last, after its op: the outcomes of two operations hold values
\* of different kinds (a row id, a token, none), which only compare when the
\* operations are the same
vars ==
    <<users, lists, views, nextId, now, trail, sessions, issued, tasks,
      plugins, call.op, call>>

----
\* Bounds of the model

MaxNow == 6            \* minute ticks taken by SpecAuth
MaxFailed == 5         \* failed_attempts values explored by SpecAuth
MaxLockNow == 62       \* minute ticks taken by SpecLockout
MaxLockFailed == 9     \* failed_attempts values explored by SpecLockout
MaxDay == 1            \* days passed in SpecLists
MaxListId == 1         \* list ids handed out in SpecLists
MaxViews == 2          \* rows held by the views relation in SpecLists
MaxTrendListId == 2    \* list ids handed out in SpecTrending
MaxHalfDays == 4       \* half days passed in SpecSessions
MaxTaskHalfDays == 3   \* half days passed in SpecTasks
MaxRaceListId == 2     \* list ids handed out in SpecListRace
MaxFormListId == 2     \* list ids handed out in SpecForms
MaxLoginFailed == 4    \* failures recorded per user in SpecLogin
MaxLoginHalfDays == 3  \* half days passed in SpecLogin
MaxHandlers == 3       \* callbacks registered in SpecEmit
MaxHooks == 1          \* callbacks registered in SpecHooks
MaxHookFailed == 1     \* failures recorded per user in SpecHooks
MaxHookListId == 1     \* list ids handed out in SpecHooks

----
\* Characters and strings

LowerLetters == {"a", "b", "c", "x", "y", "z"}
UpperLetters == {"A", "B", "C", "X", "Y", "Z"}
Digits == {"0", "1", "2", "3", "4", "5", "6", "7", "8", "9"}
Alnum == LowerLetters \cup UpperLetters \cup Digits

\* str.lower() on one character
LowerChar(c) ==
    CASE c = "A" -> "a" [] c = "B" -> "b" [] c = "C" -> "c"
      [] c = "X" -> "x" [] c = "Y" -> "y" [] c = "Z" -> "z"
      [] OTHER -> c

\* lower() left out
Lower_kept_case(s) == s

\* str.lower()
Lower(s) == [i \in 1..Len(s) |-> LowerChar(s[i])]

\* re.match(r'^[class]{lo,hi}$', s): `$` also matches just before one
\* trailing newline
ReMatch(s, class, lo, hi) ==
    LET n == Len(s)
        body == IF n > 0 /\ s[n] = "\n" THEN SubSeq(s, 1, n - 1) ELSE s
    IN  /\ Len(body) >= lo
        /\ Len(body) <= hi
        /\ \A i \in 1..Len(body) : body[i] \in class

UsernameMinLen == 3
UsernameMaxLen == 20
PinLen == 6
SlugMinLen == 1
SlugMaxLen == 50

is_valid_username(username) == ReMatch(username, Alnum, UsernameMinLen, UsernameMaxLen)

is_valid_pin(pin) == ReMatch(pin, Digits, PinLen, PinLen)

is_valid_slug(slug) == ReMatch(slug, Alnum \cup {"-"}, SlugMinLen, SlugMaxLen)

----
\* Credential store

PIN_SALT == <<"$", "s">>

\* the salts bcrypt.gensalt() may draw
BcryptSalts == {"g1", "g2"}

bcrypt_hashpw(data, salt) == [alg |-> "bcrypt", salt |-> salt, data |-> data]

\* hash_pin with the salt gensalt() drew
hash_pin(pin, salt) == bcrypt_hashpw(pin \o PIN_SALT, salt)

\* bcrypt.checkpw re-hashes under the salt stored in the hash
verify_pin(pin, hashed) == bcrypt_hashpw(pin \o PIN_SALT, hashed.salt) = hashed

hash_ip(ip) == [alg |-> "sha256", data |-> ip \o PIN_SALT]

----
\* Rate limiter

NULL == <<>>
Some(v) == <<v>>

LockThreshold == 4
LongThreshold == 8
MidThreshold == 6
LongLockout == 60
MidLockout == 15
ShortLockout == 5

lockout_minutes(failed_attempts) ==
    IF failed_attempts >= LongThreshold THEN LongLockout
    ELSE IF failed_attempts >= MidThreshold THEN MidLockout
    ELSE ShortLockout

\* the lockout starting one failure late
check_rate_limit_from_five(username, db, t) ==
    IF username \notin DOMAIN db THEN TRUE
    ELSE LET row == db[username] IN
         IF row.failed_attempts <= LockThreshold THEN TRUE
         ELSE IF row.last_fail = NULL THEN TRUE
         ELSE (t - row.last_fail[1]) > lockout_minutes(row.failed_attempts)

\* the window compared with >=, so that the boundary minute is let through
check_rate_limit_at_boundary(username, db, t) ==
    IF username \notin DOMAIN db THEN TRUE
    ELSE LET row == db[username] IN
         IF row.failed_attempts < LockThreshold THEN TRUE
         ELSE IF row.last_fail = NULL THEN TRUE
         ELSE (t - row.last_fail[1]) >= lockout_minutes(row.failed_attempts)

\* a hard lock once the long threshold is reached
check_rate_limit_hard_lock(username, db, t) ==
    IF username \notin DOMAIN db THEN TRUE
    ELSE LET row == db[username] IN
         IF row.failed_attempts < LockThreshold THEN TRUE
         ELSE IF row.last_fail = NULL THEN TRUE
         ELSE IF row.failed_attempts >= LongThreshold THEN FALSE
         ELSE (t - row.last_fail[1]) > lockout_minutes(row.failed_attempts)

\* a username without a row refused instead of let through
check_rate_limit_known_only(username, db, t) ==
    IF username \notin DOMAIN db THEN FALSE
    ELSE LET row == db[username] IN
         IF row.failed_attempts < LockThreshold THEN TRUE
         ELSE IF row.last_fail = NULL THEN TRUE
         ELSE (t - row.last_fail[1]) > lockout_minutes(row.failed_attempts)

\* check_rate_limit(username, db) evaluated at time t
check_rate_limit(username, db, t) ==
    IF username \notin DOMAIN db THEN TRUE
    ELSE LET row == db[username] IN
         IF row.failed_attempts < LockThreshold THEN TRUE
         ELSE IF row.last_fail = NULL THEN TRUE
         ELSE (t - row.last_fail[1]) > lockout_minutes(row.failed_attempts)

----
\* Inputs

Abc == <<"a", "b", "c">>
AbC == <<"A", "b", "C">>
Xyz == <<"x", "y", "z">>
SignupUsernames == {Abc, AbC, Xyz, <<"a", "b">>, <<"a", "-", "c">>}
LoginUsernames == {Abc, AbC, <<"a", "b">>}

Pin1 == <<"1", "2", "3", "4", "5", "6">>
Pin0 == <<"0", "0", "0", "0", "0", "0">>
SignupPins == {Pin1, <<"1", "2", "3">>}
LoginPins == {Pin1, Pin0}

Ip1 == <<"1", ".", "2">>
Ip2 == <<"9", ".", "9">>
Ips == {Ip1, Ip2}

----
\* Store helpers

InsertUser(db, username, row) ==
    [u \in DOMAIN db \cup {username} |-> IF u = username THEN row ELSE db[u]]

----
\* Plugin hooks (core/plugins.py)

\* what a registered callback does when it is called: return None, return a
\* dict, or raise an Exception
HandlerKinds == {"returns", "updates", "throws"}

\* callback(data): the exception it raises, if any, else what it returns
callback(cb, data) ==
    CASE cb.does = "throws" -> [raised |-> Some("Exception"), result |-> NULL]
      [] cb.does = "updates" ->
            [raised |-> NULL, result |-> Some([handled_by |-> cb.name])]
      [] OTHER -> [raised |-> NULL, result |-> NULL]

\* data.update(result)
Update(data, result) ==
    [k \in DOMAIN data \cup DOMAIN result |->
        IF k \in DOMAIN result THEN result[k] ELSE data[k]]

NoneEmitted(data) == [data |-> data, invoked |-> <<>>, raised |-> NULL]

\* the loop with `break` where the code has `continue`
RECURSIVE emit_loop_breaking(_, _, _)
emit_loop_breaking(callbacks, i, acc) ==
    IF i > Len(callbacks) THEN acc
    ELSE LET out == callback(callbacks[i], acc.data)
             invoked == Append(acc.invoked, callbacks[i].name)
         IN  IF out.raised # NULL
             THEN [acc EXCEPT !.invoked = invoked]
             ELSE IF out.result # NULL
             THEN emit_loop_breaking(callbacks, i + 1,
                        [acc EXCEPT !.invoked = invoked,
                                    !.data = Update(@, out.result[1])])
             ELSE emit_loop_breaking(callbacks, i + 1, [acc EXCEPT !.invoked = invoked])

\* the loop without try/except: the exception of a callback leaves it
RECURSIVE emit_loop_unguarded(_, _, _)
emit_loop_unguarded(callbacks, i, acc) ==
    IF i > Len(callbacks) THEN acc
    ELSE LET out == callback(callbacks[i], acc.data)
             invoked == Append(acc.invoked, callbacks[i].name)
         IN  IF out.raised # NULL
             THEN [acc EXCEPT !.invoked = invoked, !.raised = out.raised]
             ELSE IF out.result # NULL
             THEN emit_loop_unguarded(callbacks, i + 1,
                        [acc EXCEPT !.invoked = invoked,
                                    !.data = Update(@, out.result[1])])
             ELSE emit_loop_unguarded(callbacks, i + 1, [acc EXCEPT !.invoked = invoked])

\* for callback in _plugins[event], from the i-th on: a dict returned is
\* merged into data; `except Exception` logs what a callback raises and goes
\* on to the next. invoked lists the callbacks called, in order
RECURSIVE emit_loop(_, _, _)
emit_loop(callbacks, i, acc) ==
    IF i > Len(callbacks) THEN acc
    ELSE LET out == callback(callbacks[i], acc.data)
             invoked == Append(acc.invoked, callbacks[i].name)
         IN  IF out.raised # NULL
             THEN emit_loop(callbacks, i + 1, [acc EXCEPT !.invoked = invoked])
             ELSE IF out.result # NULL
             THEN emit_loop(callbacks, i + 1,
                        [acc EXCEPT !.invoked = invoked,
                                    !.data = Update(@, out.result[1])])
             ELSE emit_loop(callbacks, i + 1, [acc EXCEPT !.invoked = invoked])

\* emit_event that gives up on the callbacks after the first that raises
emit_event_breaking(registry, event, data) ==
    IF event \notin DOMAIN registry THEN NoneEmitted(data)
    ELSE emit_loop_breaking(registry[event], 1, NoneEmitted(data))

\* emit_event that lets the exception of a callback through
emit_event_unguarded(registry, event, data) ==
    IF event \notin DOMAIN registry THEN NoneEmitted(data)
    ELSE emit_loop_unguarded(registry[event], 1, NoneEmitted(data))

\* emit_event(event, data) with _plugins = registry: the data returned, the
\* callbacks called, and the exception that left it, if any
emit_event(registry, event, data) ==
    IF event \notin DOMAIN registry THEN NoneEmitted(data)
    ELSE emit_loop(registry[event], 1, NoneEmitted(data))

on_user_created(registry, username, client_ip) ==
    emit_event(registry, "user_created",
               [username |-> username, client_ip |-> client_ip])

on_user_login(registry, username, client_ip) ==
    emit_event(registry, "user_login",
               [username |-> username, client_ip |-> client_ip])

on_list_created(registry, username, slug, title, is_public) ==
    emit_event(registry, "list_created",
               [username |-> username, slug |-> slug, title |-> title,
                is_public |-> is_public])

on_list_viewed(registry, username, slug, viewer_ip) ==
    emit_event(registry, "list_viewed",
               [username |-> username, slug |-> slug, viewer_ip |-> viewer_ip])

on_list_updated(registry, username, slug, title) ==
    emit_event(registry, "list_updated",
               [username |-> username, slug |-> slug, title |-> title])

on_list_deleted(registry, username, slug) ==
    emit_event(registry, "list_deleted", [username |-> username, slug |-> slug])

\* a core call that reached its hook: the hook runs after the commit and
\* before the return, its return value is dropped, and an exception that
\* leaves it leaves the call
Hooked(outcome, hook) ==
    [outcome EXCEPT !.emitted = hook.invoked,
                    !.result = IF hook.raised = NULL THEN @ ELSE hook.raised[1],
                    !.value = IF hook.raised = NULL THEN @ ELSE <<>>]

----
\* Account service

\* before: the row the call is about (the user's, or the list's for
\* update_list) as the call found it; verified: whether the call compared
\* the PIN with the stored hash
\* value: what the call returned, when it returns data
NoCall == [op |-> "init", args |-> <<>>, result |-> "ok", verified |-> FALSE,
           before |-> NULL, value |-> <<>>, changed |-> FALSE,
           emitted |-> <<>>]

RowOf(db, username) == IF username \in DOMAIN db THEN Some(db[username]) ELSE NULL

Init ==
    /\ users = <<>>
    /\ lists = {}
    /\ views = EmptyBag
    /\ nextId = 1
    /\ now = 0
    /\ call = NoCall
    /\ trail = <<>>
    /\ sessions = <<>>
    /\ issued = <<>>
    /\ tasks = <<>>
    /\ plugins = <<>>

create_user(username, pin, client_ip, salt) ==
    LET u == Lower(username)
        args == [username |-> username, pin |-> pin]
        Outcome(r) == [op |-> "create_user", args |-> args, result |-> r,
                       verified |-> FALSE, before |-> RowOf(users, u),
                       value |-> IF r = "ok" THEN u ELSE <<>>,
                       changed |-> r = "ok", emitted |-> <<>>]
    IN
    /\ IF ~is_valid_username(u) \/ ~is_valid_pin(pin)
       THEN /\ call' = Outcome("ListkyError")
            /\ UNCHANGED <<users, trail>>
       ELSE IF u \in DOMAIN users
       THEN /\ call' = Outcome("UserAlreadyExistsError")
            /\ UNCHANGED <<users, trail>>
       ELSE /\ users' = InsertUser(users, u,
                            [pin_hash |-> hash_pin(pin, salt),
                             last_ip_hash |-> hash_ip(client_ip),
                             failed_attempts |-> 0,
                             last_fail |-> NULL])
            /\ trail' = InsertUser(trail, u, [wrong |-> 0, refused_at |-> NULL])
            /\ call' = Hooked(Outcome("ok"), on_user_created(plugins, u, client_ip))
    /\ UNCHANGED <<lists, views, nextId, now, sessions, issued, tasks, plugins>>

\* the lockout branch counting the refused attempt as a failure
RaiseRateLimit_counted(db, username, t) ==
    IF username \in DOMAIN db
    THEN [db EXCEPT ![username].failed_attempts = @ + 1,
                    ![username].last_fail = Some(t)]
    ELSE db

\* the lockout branch raises before anything is written
RaiseRateLimit(db, username, t) == db

\* the UPDATE of the wrong-PIN branch without its WHERE clause
RecordFailure_every_row(db, username, t) ==
    [u \in DOMAIN db |-> [db[u] EXCEPT !.failed_attempts = @ + 1,
                                       !.last_fail = Some(t)]]

\* the wrong-PIN branch stamping the first failure only
RecordFailure_first_stamp(db, username, t) ==
    IF username \in DOMAIN db
    THEN [db EXCEPT ![username].failed_attempts = @ + 1,
                    ![username].last_fail = IF @ = NULL THEN Some(t) ELSE @]
    ELSE db

\* the wrong-PIN branch counting one failure for each instant
RecordFailure_once_an_instant(db, username, t) ==
    IF username \in DOMAIN db /\ db[username].last_fail # Some(t)
    THEN [db EXCEPT ![username].failed_attempts = @ + 1,
                    ![username].last_fail = Some(t)]
    ELSE db

\* the wrong-PIN branch: failed_attempts + 1, last_fail = now
RecordFailure(db, username, t) ==
    IF username \in DOMAIN db
    THEN [db EXCEPT ![username].failed_attempts = @ + 1,
                    ![username].last_fail = Some(t)]
    ELSE db

\* the success branch refreshing the IP hash only
RecordSuccess_no_reset(db, username, client_ip) ==
    IF username \in DOMAIN db
    THEN [db EXCEPT ![username].last_ip_hash = hash_ip(client_ip)]
    ELSE db

\* the success branch resetting the counter and leaving last_fail as it was
RecordSuccess_keeps_last_fail(db, username, client_ip) ==
    IF username \in DOMAIN db
    THEN [db EXCEPT ![username].failed_attempts = 0,
                    ![username].last_ip_hash = hash_ip(client_ip)]
    ELSE db

\* the success branch: counter reset, IP hash refreshed
RecordSuccess(db, username, client_ip) ==
    IF username \in DOMAIN db
    THEN [db EXCEPT ![username].failed_attempts = 0,
                    ![username].last_fail = NULL,
                    ![username].last_ip_hash = hash_ip(client_ip)]
    ELSE db

\* history of a login of user u: pinOk says whether the PIN given was the
\* user's, result is the outcome of the call
Trail(h, u, pinOk, result, t) ==
    IF u \notin DOMAIN h THEN h
    ELSE IF result = "ok" THEN [h EXCEPT ![u] = [wrong |-> 0, refused_at |-> NULL]]
    ELSE IF pinOk THEN h
    ELSE [h EXCEPT ![u].wrong = IF @ < LockThreshold THEN @ + 1 ELSE @,
                   ![u].refused_at =
                        IF result = "InvalidCredentialsError" THEN Some(t) ELSE @]

\* authenticate_user asking the rate limiter about the name as it was typed
authenticate_user_body_limit_as_typed(username, pin, client_ip, maxFailed) ==
    LET u == Lower(username)
        args == [username |-> username, pin |-> pin]
        pinOk == u \in DOMAIN users /\ verify_pin(pin, users[u].pin_hash)
        Outcome(r, v) == [op |-> "authenticate_user", args |-> args, result |-> r,
                          verified |-> v, before |-> RowOf(users, u),
                          value |-> IF r = "ok" THEN u ELSE <<>>,
                          changed |-> u \in DOMAIN users /\ r # "RateLimitError",
                          emitted |-> <<>>]
    IN
    /\ IF ~check_rate_limit(username, users, now)
       THEN /\ call' = Outcome("RateLimitError", FALSE)
            /\ users' = RaiseRateLimit(users, u, now)
            /\ trail' = Trail(trail, u, pinOk, "RateLimitError", now)
       ELSE IF u \notin DOMAIN users \/ ~verify_pin(pin, users[u].pin_hash)
       THEN /\ u \in DOMAIN users => users[u].failed_attempts < maxFailed
            /\ users' = RecordFailure(users, u, now)
            /\ call' = Outcome("InvalidCredentialsError", u \in DOMAIN users)
            /\ trail' = Trail(trail, u, pinOk, "InvalidCredentialsError", now)
       ELSE /\ users' = RecordSuccess(users, u, client_ip)
            /\ call' = Hooked(Outcome("ok", TRUE), on_user_login(plugins, u, client_ip))
            /\ trail' = Trail(trail, u, pinOk, "ok", now)

\* the statements of authenticate_user: what they leave in the users relation
\* and what the call returns or raises
authenticate_user_body(username, pin, client_ip, maxFailed) ==
    LET u == Lower(username)
        args == [username |-> username, pin |-> pin]
        pinOk == u \in DOMAIN users /\ verify_pin(pin, users[u].pin_hash)
        Outcome(r, v) == [op |-> "authenticate_user", args |-> args, result |-> r,
                          verified |-> v, before |-> RowOf(users, u),
                          value |-> IF r = "ok" THEN u ELSE <<>>,
                          changed |-> u \in DOMAIN users /\ r # "RateLimitError",
                          emitted |-> <<>>]
    IN
    /\ IF ~check_rate_limit(u, users, now)
       THEN /\ call' = Outcome("RateLimitError", FALSE)
            /\ users' = RaiseRateLimit(users, u, now)
            /\ trail' = Trail(trail, u, pinOk, "RateLimitError", now)
       ELSE IF u \notin DOMAIN users \/ ~verify_pin(pin, users[u].pin_hash)
       THEN /\ u \in DOMAIN users => users[u].failed_attempts < maxFailed
            /\ users' = RecordFailure(users, u, now)
            /\ call' = Outcome("InvalidCredentialsError", u \in DOMAIN users)
            /\ trail' = Trail(trail, u, pinOk, "InvalidCredentialsError", now)
       ELSE /\ users' = RecordSuccess(users, u, client_ip)
            /\ call' = Hooked(Outcome("ok", TRUE), on_user_login(plugins, u, client_ip))
            /\ trail' = Trail(trail, u, pinOk, "ok", now)

authenticate_user(username, pin, client_ip, maxFailed) ==
    /\ authenticate_user_body(username, pin, client_ip, maxFailed)
    /\ UNCHANGED <<lists, views, nextId, now, sessions, issued, tasks, plugins>>

\* one minute passes
Tick(maxNow) ==
    /\ now < maxNow
    /\ now' = now + 1
    /\ call' = [NoCall EXCEPT !.op = "tick"]
    /\ UNCHANGED <<users, lists, views, nextId, trail, sessions, issued, tasks, plugins>>

CreateUser ==
    \E username \in SignupUsernames, pin \in SignupPins, ip \in Ips,
       salt \in BcryptSalts :
        create_user(username, pin, ip, salt)

AuthenticateUser ==
    \E username \in LoginUsernames, pin \in LoginPins, ip \in Ips :
        authenticate_user(username, pin, ip, MaxFailed)

TickAuth == Tick(MaxNow)

NextAuth == CreateUser \/ AuthenticateUser \/ TickAuth

\* signup and login from an empty store
SpecAuth == Init /\ [][NextAuth]_vars

----
\* Lockout over the long windows: one account, found with any number of
\* failures recorded, the last of them just now

StoredUser(n) ==
    [pin_hash |-> hash_pin(Pin1, "g1"),
     last_ip_hash |-> hash_ip(Ip1),
     failed_attempts |-> n,
     last_fail |-> IF n = 0 THEN NULL ELSE Some(0)]

InitLockout ==
    /\ \E n \in 0..(MaxLockFailed - 1) :
            users = InsertUser(<<>>, Abc, StoredUser(n))
    /\ lists = {}
    /\ views = EmptyBag
    /\ nextId = 1
    /\ now = 0
    /\ call = NoCall
    /\ trail = InsertUser(<<>>, Abc, [wrong |-> 0, refused_at |-> NULL])
    /\ sessions = <<>>
    /\ issued = <<>>
    /\ tasks = <<>>
    /\ plugins = <<>>

AuthenticateLocked ==
    \E pin \in LoginPins : authenticate_user(Abc, pin, Ip1, MaxLockFailed)

TickLockout == Tick(MaxLockNow)

NextLockout == AuthenticateLocked \/ TickLockout

SpecLockout == InitLockout /\ [][NextLockout]_vars

----
\* Lists and views. A lists row carries the columns the core reads or the
\* design speaks of; updated_at, which only get_user_lists' ORDER BY reads,
\* is left out.

MinutesPerDay == 24 * 60

\* date.today() at time t, as a day number
Today(t) == t \div MinutesPerDay

TitleMaxLen == 200
ContentMaxLen == 10000

\* a title or content: its text and len() of it (the code reads the length
\* and stores the text)
Text(text, n) == [text |-> text, len |-> n]

ListUsernames == {AbC, Xyz}
Todo == Text("Todo", 4)
BuyMilk == Text("buy milk", 8)

SlugX == <<"x">>

\* the slug asked for by a view or a delete: it names a list of an owner who
\* has created one and a missing list of an owner who has not
Slugs == {SlugX}

\* (slug, title, content) as submitted: one valid form, and one form for
\* each way of failing a check
ListForms ==
    {<<SlugX, Todo, BuyMilk>>,
     <<<<"x", "_">>, Todo, BuyMilk>>,
     <<SlugX, Text("", 0), BuyMilk>>,
     <<SlugX, Text("long title", TitleMaxLen + 1), BuyMilk>>,
     <<SlugX, Todo, Text("", 0)>>,
     <<SlugX, Todo, Text("long content", ContentMaxLen + 1)>>}

\* the is_public values a form is submitted with: both for the form that
\* passes the checks, one for a form that fails them (the checks do not read
\* is_public)
Visibility(form) == IF form = <<SlugX, Todo, BuyMilk>> THEN BOOLEAN ELSE {TRUE}

\* a request: the X-Forwarded-For entries (none when the header is absent)
\* and the peer address
Requests == {[xff |-> <<>>, host |-> Ip1], [xff |-> <<Ip2, Ip1>>, host |-> Ip1]}

\* where a store failure may strike a record_list_view call
Faults == {"none", "lookup", "insert"}

TrendDays == {0, 1, 7}
TrendLimits == {1, 10}

get_client_ip(request) ==
    IF request.xff # <<>> THEN request.xff[1] ELSE request.host

\* SELECT ... FROM lists WHERE username = ? AND slug = ?
ListRows(db, username, slug) ==
    {l \in db : l.username = username /\ l.slug = slug}

\* get_list: fetchone() of the rows above, in rowid order
get_list(db, username, slug) ==
    LET rows == ListRows(db, Lower(username), slug) IN
    IF rows = {} THEN NULL
    ELSE Some(CHOOSE l \in rows : \A m \in rows : l.id <= m.id)

\* INSERT INTO views without the primary key to stop a second row
InsertOrIgnore_duplicating(table, row) == table (+) SetToBag({row})

\* INSERT OR IGNORE INTO views under PRIMARY KEY (list_id, view_date, ip_hash)
InsertOrIgnore(table, row) ==
    IF BagIn(row, table) THEN table ELSE table (+) SetToBag({row})

\* track_list_view returning whether a row was added
track_list_view_reporting_insert(table, list_id, request, t, storage_ok) ==
    LET row == [list_id |-> list_id, view_date |-> Today(t),
                ip_hash |-> hash_ip(get_client_ip(request))]
    IN  IF storage_ok
        THEN [views |-> InsertOrIgnore(table, row), ret |-> ~BagIn(row, table)]
        ELSE [views |-> table, ret |-> FALSE]

\* track_list_view at time t; storage_ok is whether the store took the
\* statement (an exception is swallowed and answered False)
track_list_view(table, list_id, request, t, storage_ok) ==
    LET row == [list_id |-> list_id, view_date |-> Today(t),
                ip_hash |-> hash_ip(get_client_ip(request))]
    IN  IF storage_ok
        THEN [views |-> InsertOrIgnore(table, row), ret |-> TRUE]
        ELSE [views |-> table, ret |-> FALSE]

\* the view rows of a list dated within the window of `days` days at time t
\* (view_date is date.today(), the bound is SQLite's date('now'): the server
\* clock is taken to run in UTC, where the two are the same date)
WindowViews(table, list_id, days, t) ==
    {v \in BagToSet(table) : v.list_id = list_id /\ v.view_date >= Today(t) - days}

\* COUNT(*): the view rows, not the distinct hashes
view_count_rows(table, list_id, days, t) ==
    Cardinality(WindowViews(table, list_id, days, t))

\* COUNT(DISTINCT v.ip_hash)
view_count(table, list_id, days, t) ==
    Cardinality({v.ip_hash : v \in WindowViews(table, list_id, days, t)})

\* the join without WHERE l.is_public = 1
TrendingGroups_any_list(db, table, days, t) ==
    {l \in db : WindowViews(table, l.id, days, t) # {}}

\* lists JOIN views WHERE l.is_public = 1 AND v.view_date in the window,
\* GROUP BY list
TrendingGroups(db, table, days, t) ==
    {l \in db : l.is_public /\ WindowViews(table, l.id, days, t) # {}}

Min(a, b) == IF a < b THEN a ELSE b

\* the query without LIMIT ?
get_trending_lists_unlimited(db, table, days, limit, t) ==
    LET groups == TrendingGroups(db, table, days, t)
        n == Cardinality(groups)
        count(l) == view_count(table, l.id, days, t)
        orders == {o \in [1..n -> groups] :
                     /\ \A i, j \in 1..n : i # j => o[i] # o[j]
                     /\ \A i, j \in 1..n : i < j => count(o[i]) >= count(o[j])}
    IN  {[i \in 1..n |->
            [username |-> o[i].username, slug |-> o[i].slug, title |-> o[i].title,
             view_count |-> count(o[i])]] : o \in orders}

\* every result get_trending_lists may return: the groups ORDER BY
\* view_count DESC, rows of equal count in any order, LIMIT limit
get_trending_lists(db, table, days, limit, t) ==
    LET groups == TrendingGroups(db, table, days, t)
        n == Cardinality(groups)
        count(l) == view_count(table, l.id, days, t)
        orders == {o \in [1..n -> groups] :
                     /\ \A i, j \in 1..n : i # j => o[i] # o[j]
                     /\ \A i, j \in 1..n : i < j => count(o[i]) >= count(o[j])}
    IN  {[i \in 1..Min(n, limit) |->
            [username |-> o[i].username, slug |-> o[i].slug, title |-> o[i].title,
             view_count |-> count(o[i])]] : o \in orders}

\* the outcome of a list call: changed says whether it wrote to the store
ListCall(op, result, value, changed) ==
    [NoCall EXCEPT !.op = op, !.result = result, !.value = value,
                   !.changed = changed]

\* the create_list without the SELECT that looks for the pair
create_list_unchecked(username, slug, title, content, is_public, maxId) ==
    LET u == Lower(username) IN
    /\ IF \/ ~is_valid_slug(slug)
          \/ title.len = 0 \/ title.len > TitleMaxLen
          \/ content.len = 0 \/ content.len > ContentMaxLen
       THEN /\ call' = ListCall("create_list", "ListkyError", <<>>, FALSE)
            /\ UNCHANGED <<lists, nextId>>
       ELSE /\ nextId <= maxId
            /\ lists' = lists \cup
                    {[id |-> nextId, username |-> u, slug |-> slug, title |-> title,
                      content |-> content, is_public |-> is_public,
                      created_at |-> now]}
            /\ nextId' = nextId + 1
            /\ call' = ListCall("create_list", "ok", nextId, TRUE)
    /\ UNCHANGED <<users, views, now, trail, sessions, issued, tasks, plugins>>

\* the id column without AUTOINCREMENT: the largest id in the table plus 1
create_list_rowid(username, slug, title, content, is_public, maxId) ==
    LET u == Lower(username)
        ids == {l.id : l \in lists}
        rowid == IF ids = {} THEN 1
                 ELSE (CHOOSE n \in ids : \A m \in ids : m <= n) + 1
    IN
    /\ IF \/ ~is_valid_slug(slug)
          \/ title.len = 0 \/ title.len > TitleMaxLen
          \/ content.len = 0 \/ content.len > ContentMaxLen
          \/ ListRows(lists, u, slug) # {}
       THEN /\ call' = ListCall("create_list", "ListkyError", <<>>, FALSE)
            /\ UNCHANGED <<lists, nextId>>
       ELSE /\ nextId <= maxId
            /\ lists' = lists \cup
                    {[id |-> rowid, username |-> u, slug |-> slug, title |-> title,
                      content |-> content, is_public |-> is_public,
                      created_at |-> now]}
            /\ nextId' = nextId + 1
            /\ call' = Hooked(ListCall("create_list", "ok", rowid, TRUE),
                              on_list_created(plugins, u, slug, title, is_public))
    /\ UNCHANGED <<users, views, now, trail, sessions, issued, tasks, plugins>>

create_list(username, slug, title, content, is_public, maxId) ==
    LET u == Lower(username) IN
    /\ IF \/ ~is_valid_slug(slug)
          \/ title.len = 0 \/ title.len > TitleMaxLen
          \/ content.len = 0 \/ content.len > ContentMaxLen
          \/ ListRows(lists, u, slug) # {}
       THEN /\ call' = ListCall("create_list", "ListkyError", <<>>, FALSE)
            /\ UNCHANGED <<lists, nextId>>
       ELSE /\ nextId <= maxId
            /\ lists' = lists \cup
                    {[id |-> nextId, username |-> u, slug |-> slug, title |-> title,
                      content |-> content, is_public |-> is_public,
                      created_at |-> now]}
            /\ nextId' = nextId + 1
            /\ call' = Hooked(ListCall("create_list", "ok", nextId, TRUE),
                              on_list_created(plugins, u, slug, title, is_public))
    /\ UNCHANGED <<users, views, now, trail, sessions, issued, tasks, plugins>>

\* an update written as INSERT OR REPLACE: the row comes back under a new id
update_list_replacing(username, slug, title, content, is_public) ==
    LET u == Lower(username)
        rows == ListRows(lists, u, slug)
    IN
    /\ IF \/ title.len = 0 \/ title.len > TitleMaxLen
          \/ content.len = 0 \/ content.len > ContentMaxLen
       THEN /\ call' = ListCall("update_list", "ListkyError", <<>>, FALSE)
            /\ UNCHANGED <<lists, nextId>>
       ELSE IF rows = {}
       THEN /\ call' = ListCall("update_list", "ListNotFoundError", <<>>, FALSE)
            /\ UNCHANGED <<lists, nextId>>
       ELSE /\ lists' = (lists \ rows) \cup
                    {[l EXCEPT !.title = title, !.content = content,
                               !.is_public = is_public, !.id = nextId] :
                        l \in rows}
            /\ nextId' = nextId + 1
            /\ call' = [ListCall("update_list", "ok", <<>>, TRUE)
                            EXCEPT !.before = get_list(lists, u, slug)]
    /\ UNCHANGED <<users, views, now, trail, sessions, issued, tasks, plugins>>

update_list(username, slug, title, content, is_public) ==
    LET u == Lower(username)
        rows == ListRows(lists, u, slug)
    IN
    /\ IF \/ title.len = 0 \/ title.len > TitleMaxLen
          \/ content.len = 0 \/ content.len > ContentMaxLen
       THEN /\ call' = ListCall("update_list", "ListkyError", <<>>, FALSE)
            /\ lists' = lists
       ELSE IF rows = {}
       THEN /\ call' = ListCall("update_list", "ListNotFoundError", <<>>, FALSE)
            /\ lists' = lists
       ELSE /\ lists' = (lists \ rows) \cup
                    {[l EXCEPT !.title = title, !.content = content,
                               !.is_public = is_public] :
                        l \in rows}
            /\ call' = Hooked([ListCall("update_list", "ok", <<>>, TRUE)
                                    EXCEPT !.before = get_list(lists, u, slug)],
                              on_list_updated(plugins, u, slug, title))
    /\ UNCHANGED <<users, views, nextId, now, trail, sessions, issued, tasks, plugins>>

\* the DELETE without the rowcount check: deleting a missing list succeeds
delete_list_if_exists(username, slug) ==
    LET rows == ListRows(lists, Lower(username), slug) IN
    /\ lists' = lists \ rows
    /\ call' = ListCall("delete_list", "ok", <<>>, rows # {})
    /\ UNCHANGED <<users, views, nextId, now, trail, sessions, issued, tasks, plugins>>

delete_list(username, slug) ==
    LET rows == ListRows(lists, Lower(username), slug) IN
    /\ IF rows = {}
       THEN /\ call' = ListCall("delete_list", "ListNotFoundError", <<>>, FALSE)
            /\ lists' = lists
       ELSE /\ lists' = lists \ rows
            /\ call' = Hooked(ListCall("delete_list", "ok", <<>>, TRUE),
                              on_list_deleted(plugins, username, slug))
    /\ UNCHANGED <<users, views, nextId, now, trail, sessions, issued, tasks, plugins>>

\* fault is where the store fails during the call, if anywhere: in get_list's
\* SELECT, which no try encloses (the sqlite3 error leaves record_list_view),
\* or in track_list_view's INSERT, which swallows it
record_list_view(username, slug, request, fault) ==
    LET list_data == get_list(lists, username, slug) IN
    /\ IF fault = "lookup"
       THEN /\ call' = ListCall("record_list_view", "sqlite3.Error", <<>>, FALSE)
            /\ views' = views
       ELSE IF list_data = NULL \/ ~list_data[1].is_public
       THEN /\ call' = ListCall("record_list_view", "False", <<>>, FALSE)
            /\ views' = views
       ELSE LET tracked == track_list_view(views, list_data[1].id, request, now,
                                           fault # "insert")
            IN  /\ BagCardinality(tracked.views) <= MaxViews
                /\ views' = tracked.views
                /\ call' =
                      IF tracked.ret
                      THEN Hooked(ListCall("record_list_view", "True", <<>>,
                                           tracked.views # views),
                                  on_list_viewed(plugins, username, slug,
                                                 get_client_ip(request)))
                      ELSE ListCall("record_list_view", "False", <<>>,
                                    tracked.views # views)
    /\ UNCHANGED <<users, lists, nextId, now, trail, sessions, issued, tasks, plugins>>

get_trending_public_lists(days, limit) ==
    /\ \E rows \in get_trending_lists(lists, views, days, limit, now) :
          call' = ListCall("get_trending_public_lists", "ok", rows, FALSE)
    /\ UNCHANGED <<users, lists, views, nextId, now, trail, sessions, issued, tasks, plugins>>

\* midnight passes
NextDay ==
    /\ Today(now) < MaxDay
    /\ now' = (Today(now) + 1) * MinutesPerDay
    /\ call' = [NoCall EXCEPT !.op = "tick"]
    /\ UNCHANGED <<users, lists, views, nextId, trail, sessions, issued, tasks, plugins>>

CreateList ==
    \E username \in ListUsernames, form \in ListForms :
      \E is_public \in Visibility(form) :
        create_list(username, form[1], form[2], form[3], is_public, MaxListId)

UpdateList ==
    \E username \in ListUsernames, form \in ListForms :
      \E is_public \in Visibility(form) :
        update_list(username, form[1], form[2], form[3], is_public)

DeleteList ==
    \E username \in ListUsernames, slug \in Slugs : delete_list(username, slug)

RecordListView ==
    \E username \in ListUsernames, slug \in Slugs, request \in Requests,
       fault \in Faults :
        record_list_view(username, slug, request, fault)

GetTrending ==
    \E days \in TrendDays, limit \in TrendLimits :
        get_trending_public_lists(days, limit)

NextLists ==
    CreateList \/ UpdateList \/ DeleteList \/ RecordListView \/ GetTrending \/ NextDay

\* list CRUD, views and trending from an empty store
SpecLists == Init /\ [][NextLists]_vars

\* Trending over several lists: lists are created with valid forms and
\* viewed, days pass, and the trending query runs
CreateTrendList ==
    \E username \in ListUsernames, is_public \in BOOLEAN :
        create_list(username, SlugX, Todo, BuyMilk, is_public, MaxTrendListId)

ViewTrendList ==
    \E username \in ListUsernames, request \in Requests :
        record_list_view(username, SlugX, request, "none")

NextTrending == CreateTrendList \/ ViewTrendList \/ GetTrending \/ NextDay

SpecTrending == Init /\ [][NextTrending]_vars

----
\* Sessions: the process-wide map active_sessions

SessionHours == 24

\* timedelta(hours=24), in minutes
SessionLifetime == SessionHours * 60

HalfDay == 12 * 60

\* the values secrets.token_urlsafe(32) may return
Tokens == {"t1", "t2"}

\* request.cookies.get('session') when the request carries no session cookie
NoCookie == ""

Cookies == Tokens \cup {NoCookie}

\* the usernames authenticate_user returns to login
SessionUsernames == {Lower(AbC), Xyz}

\* active_sessions[token] = value
SetItem(map, token, value) ==
    [k \in DOMAIN map \cup {token} |-> IF k = token THEN value ELSE map[k]]

\* del active_sessions[token]
DelItem(map, token) == [k \in DOMAIN map \ {token} |-> map[k]]

SessionCall(op, token, value, changed) ==
    [NoCall EXCEPT !.op = op, !.args = token, !.value = value,
                   !.changed = changed]

\* a session that lasts until the day of login ends
create_session_until_midnight(username, token) ==
    /\ token \notin DOMAIN sessions
    /\ sessions' = SetItem(sessions, token,
                           [username |-> username,
                            expires |-> (Today(now) + 1) * MinutesPerDay])
    /\ issued' = SetItem(issued, token, [username |-> username, at |-> now])
    /\ call' = SessionCall("create_session", token, token, TRUE)
    /\ UNCHANGED <<users, lists, views, nextId, now, trail, tasks, plugins>>

\* a create_session that ends the sessions the user held before
create_session_single(username, token) ==
    /\ token \notin DOMAIN sessions
    /\ sessions' = SetItem([k \in {t \in DOMAIN sessions :
                                        sessions[t].username # username}
                                |-> sessions[k]],
                           token,
                           [username |-> username,
                            expires |-> now + SessionLifetime])
    /\ issued' = SetItem(issued, token, [username |-> username, at |-> now])
    /\ call' = SessionCall("create_session", token, token, TRUE)
    /\ UNCHANGED <<users, lists, views, nextId, now, trail, tasks, plugins>>

\* create_session; token is the value secrets.token_urlsafe(32) returns, 256
\* random bits that no entry of the map holds already
create_session(username, token) ==
    /\ token \notin DOMAIN sessions
    /\ sessions' = SetItem(sessions, token,
                           [username |-> username,
                            expires |-> now + SessionLifetime])
    /\ issued' = SetItem(issued, token, [username |-> username, at |-> now])
    /\ call' = SessionCall("create_session", token, token, TRUE)
    /\ UNCHANGED <<users, lists, views, nextId, now, trail, tasks, plugins>>

\* a lookup that sweeps every expired entry
get_session_user_sweeping(cookie) ==
    /\ IF cookie = NoCookie \/ cookie \notin DOMAIN sessions
       THEN /\ call' = SessionCall("get_session_user", cookie, NULL, FALSE)
            /\ sessions' = sessions
       ELSE IF now > sessions[cookie].expires
       THEN /\ sessions' = [k \in {t \in DOMAIN sessions :
                                      now <= sessions[t].expires} |-> sessions[k]]
            /\ call' = SessionCall("get_session_user", cookie, NULL, TRUE)
       ELSE /\ call' = SessionCall("get_session_user", cookie,
                                   Some(sessions[cookie].username), FALSE)
            /\ sessions' = sessions
    /\ UNCHANGED <<users, lists, views, nextId, now, trail, issued, tasks, plugins>>

\* get_session_user on a request whose session cookie is `cookie`
get_session_user(cookie) ==
    /\ IF cookie = NoCookie \/ cookie \notin DOMAIN sessions
       THEN /\ call' = SessionCall("get_session_user", cookie, NULL, FALSE)
            /\ sessions' = sessions
       ELSE IF now > sessions[cookie].expires
       THEN /\ sessions' = DelItem(sessions, cookie)
            /\ call' = SessionCall("get_session_user", cookie, NULL, TRUE)
       ELSE /\ call' = SessionCall("get_session_user", cookie,
                                   Some(sessions[cookie].username), FALSE)
            /\ sessions' = sessions
    /\ UNCHANGED <<users, lists, views, nextId, now, trail, issued, tasks, plugins>>

\* a clear that empties the map
clear_session_all(token) ==
    /\ IF token \in DOMAIN sessions
       THEN /\ sessions' = [k \in {} |-> sessions[k]]
            /\ call' = SessionCall("clear_session", token, NULL, TRUE)
       ELSE /\ sessions' = sessions
            /\ call' = SessionCall("clear_session", token, NULL, FALSE)
    /\ issued' = DelItem(issued, token)
    /\ UNCHANGED <<users, lists, views, nextId, now, trail, tasks, plugins>>

clear_session(token) ==
    /\ IF token \in DOMAIN sessions
       THEN /\ sessions' = DelItem(sessions, token)
            /\ call' = SessionCall("clear_session", token, NULL, TRUE)
       ELSE /\ sessions' = sessions
            /\ call' = SessionCall("clear_session", token, NULL, FALSE)
    /\ issued' = DelItem(issued, token)
    /\ UNCHANGED <<users, lists, views, nextId, now, trail, tasks, plugins>>

\* twelve hours pass
TickHalfDay ==
    /\ now < MaxHalfDays * HalfDay
    /\ now' = now + HalfDay
    /\ call' = [NoCall EXCEPT !.op = "tick"]
    /\ UNCHANGED <<users, lists, views, nextId, trail, sessions, issued, tasks, plugins>>

CreateSession ==
    \E username \in SessionUsernames, token \in Tokens :
        create_session(username, token)

GetSessionUser == \E cookie \in Cookies : get_session_user(cookie)

ClearSession == \E token \in Tokens : clear_session(token)

NextSessions == CreateSession \/ GetSessionUser \/ ClearSession \/ TickHalfDay

\* logins, lookups and logouts one after another on one process
SpecSessions == Init /\ [][NextSessions]_vars

----
\* Sessions under concurrent request handlers. Every route of main.py is an
\* `async def` whose body calls the session functions without an await, so
\* the handlers of one process run on one event loop and a handler gives up
\* the loop only between requests. The session functions are modelled one
\* statement at a time, and the event loop decides who may take a step.

Handlers == {"h1", "h2"}

Return(v) == <<"return", v>>
Raise(e) == <<"raise", e>>

\* a handler between requests
Idle == [op |-> "idle", pc |-> "idle", token |-> NoCookie, data |-> NULL,
         result |-> NULL]

Finished(task, result) == [task EXCEPT !.pc = "done", !.result = result]

\* handlers run on threads, which may be preempted between any two statements
Suspendable_between_statements(pc) == TRUE

\* the positions at which the event loop may run another handler: those of a
\* handler that is not inside a request body
Suspendable(pc) == pc \in {"idle", "done"}

\* handler h may take a step: no other handler holds the event loop
OnLoop(h) == \A g \in Handlers \ {h} : Suspendable(tasks[g].pc)

TaskFrame == UNCHANGED <<users, lists, views, nextId, now, call, trail, plugins>>

InitTasks ==
    /\ users = <<>>
    /\ lists = {}
    /\ views = EmptyBag
    /\ nextId = 1
    /\ now = 0
    /\ call = NoCall
    /\ trail = <<>>
    /\ sessions = <<>>
    /\ issued = <<>>
    /\ tasks = [h \in Handlers |-> Idle]
    /\ plugins = <<>>

\* login: create_session, whose one write to the map is a single dict store
create_session_task(h, username, token) ==
    /\ OnLoop(h)
    /\ tasks[h].pc \in {"idle", "done"}
    /\ token \notin DOMAIN sessions
    /\ sessions' = SetItem(sessions, token,
                           [username |-> username,
                            expires |-> now + SessionLifetime])
    /\ issued' = SetItem(issued, token, [username |-> username, at |-> now])
    /\ tasks' = [tasks EXCEPT ![h] =
                    [op |-> "create_session", pc |-> "done", token |-> token,
                     data |-> NULL, result |-> Return(token)]]
    /\ TaskFrame

\* get_session_user, line 60: the membership test
get_session_user_check(h, cookie) ==
    /\ OnLoop(h)
    /\ tasks[h].pc \in {"idle", "done"}
    /\ tasks' = [tasks EXCEPT ![h] =
                    LET task == [op |-> "get_session_user", pc |-> "read",
                                 token |-> cookie, data |-> NULL,
                                 result |-> NULL]
                    IN  IF cookie = NoCookie \/ cookie \notin DOMAIN sessions
                        THEN Finished(task, Return(NULL))
                        ELSE task]
    /\ UNCHANGED <<sessions, issued>>
    /\ TaskFrame

\* line 63: session_data = active_sessions[session_token]
get_session_user_read(h) ==
    /\ OnLoop(h)
    /\ tasks[h].pc = "read"
    /\ tasks' = [tasks EXCEPT ![h] =
                    IF tasks[h].token \in DOMAIN sessions
                    THEN [@ EXCEPT !.pc = "expiry",
                                   !.data = Some(sessions[tasks[h].token])]
                    ELSE Finished(@, Raise("KeyError"))]
    /\ UNCHANGED <<sessions, issued>>
    /\ TaskFrame

\* line 64: the comparison with datetime.now(), and line 69 when not expired
get_session_user_expiry(h) ==
    /\ OnLoop(h)
    /\ tasks[h].pc = "expiry"
    /\ tasks' = [tasks EXCEPT ![h] =
                    IF now > tasks[h].data[1].expires
                    THEN [@ EXCEPT !.pc = "del"]
                    ELSE Finished(@, Return(Some(tasks[h].data[1].username)))]
    /\ UNCHANGED <<sessions, issued>>
    /\ TaskFrame

\* lines 66-67: del active_sessions[session_token]; return None
get_session_user_del(h) ==
    /\ OnLoop(h)
    /\ tasks[h].pc = "del"
    /\ IF tasks[h].token \in DOMAIN sessions
       THEN /\ sessions' = DelItem(sessions, tasks[h].token)
            /\ tasks' = [tasks EXCEPT ![h] = Finished(@, Return(NULL))]
       ELSE /\ sessions' = sessions
            /\ tasks' = [tasks EXCEPT ![h] = Finished(@, Raise("KeyError"))]
    /\ UNCHANGED issued
    /\ TaskFrame

\* logout: clear_session, line 73: the membership test
clear_session_check(h, token) ==
    /\ OnLoop(h)
    /\ tasks[h].pc \in {"idle", "done"}
    /\ LET task == [op |-> "clear_session", pc |-> "clear", token |-> token,
                    data |-> NULL, result |-> NULL]
       IN  IF token \in DOMAIN sessions
           THEN /\ tasks' = [tasks EXCEPT ![h] = task]
                /\ issued' = issued
           ELSE /\ tasks' = [tasks EXCEPT ![h] = Finished(task, Return(NULL))]
                /\ issued' = DelItem(issued, token)
    /\ UNCHANGED sessions
    /\ TaskFrame

\* line 74: del active_sessions[session_token]
clear_session_del(h) ==
    /\ OnLoop(h)
    /\ tasks[h].pc = "clear"
    /\ IF tasks[h].token \in DOMAIN sessions
       THEN /\ sessions' = DelItem(sessions, tasks[h].token)
            /\ tasks' = [tasks EXCEPT ![h] = Finished(@, Return(NULL))]
       ELSE /\ sessions' = sessions
            /\ tasks' = [tasks EXCEPT ![h] = Finished(@, Raise("KeyError"))]
    /\ issued' = DelItem(issued, tasks[h].token)
    /\ TaskFrame

\* twelve hours pass, whatever the handlers are doing
TickTasks ==
    /\ now < MaxTaskHalfDays * HalfDay
    /\ now' = now + HalfDay
    /\ UNCHANGED <<users, lists, views, nextId, call, trail, sessions, issued,
                   tasks, plugins>>

NextTasks ==
    \/ \E h \in Handlers, username \in SessionUsernames, token \in Tokens :
            create_session_task(h, username, token)
    \/ \E h \in Handlers, cookie \in Cookies : get_session_user_check(h, cookie)
    \/ \E h \in Handlers : get_session_user_read(h)
    \/ \E h \in Handlers : get_session_user_expiry(h)
    \/ \E h \in Handlers : get_session_user_del(h)
    \/ \E h \in Handlers, token \in Tokens : clear_session_check(h, token)
    \/ \E h \in Handlers : clear_session_del(h)
    \/ TickTasks

\* two request handlers of one process sharing the session map
SpecTasks == InitTasks /\ [][NextTasks]_vars

----
\* The store under concurrent callers. Every request opens a connection of
\* its own to the database file (get_db), and the file is shared by every
\* process that serves requests or calls the core API; a call is a sequence
\* of SQL statements, and statements of different connections interleave.
\* The outcome of each call is kept in tasks, per connection.

Conns == {"c1", "c2"}

RaceUsernames == {Abc, AbC, <<"a", "b">>}

IdleConn == [op |-> "idle", pc |-> "idle", args |-> <<>>, result |-> NULL]

InitRace ==
    /\ users = <<>>
    /\ lists = {}
    /\ views = EmptyBag
    /\ nextId = 1
    /\ now = 0
    /\ call = NoCall
    /\ trail = <<>>
    /\ sessions = <<>>
    /\ issued = <<>>
    /\ tasks = [c \in Conns |-> IdleConn]
    /\ plugins = <<>>

\* create_user, lines 45-57: lower(), the format checks and the SELECT
create_user_check(c, username, pin, client_ip) ==
    LET u == Lower(username)
        task == [op |-> "create_user", pc |-> "insert",
                 args |-> [username |-> u, pin |-> pin, client_ip |-> client_ip],
                 result |-> NULL]
    IN
    /\ tasks[c].pc \in {"idle", "done"}
    /\ tasks' = [tasks EXCEPT ![c] =
                    IF ~is_valid_username(u) \/ ~is_valid_pin(pin)
                    THEN Finished(task, Raise("ListkyError"))
                    ELSE IF u \in DOMAIN users
                    THEN Finished(task, Raise("UserAlreadyExistsError"))
                    ELSE task]
    /\ UNCHANGED <<users, lists, views, nextId, now, call, trail, sessions,
                   issued, plugins>>

\* lines 60-72: the INSERT under PRIMARY KEY (username) and the commit; no
\* try encloses the INSERT, so the constraint failure leaves create_user
create_user_insert(c, salt) ==
    LET a == tasks[c].args IN
    /\ tasks[c].op = "create_user"
    /\ tasks[c].pc = "insert"
    /\ IF a.username \in DOMAIN users
       THEN /\ tasks' = [tasks EXCEPT ![c] =
                            Finished(@, Raise("sqlite3.IntegrityError"))]
            /\ UNCHANGED <<users, trail>>
       ELSE /\ users' = InsertUser(users, a.username,
                            [pin_hash |-> hash_pin(a.pin, salt),
                             last_ip_hash |-> hash_ip(a.client_ip),
                             failed_attempts |-> 0,
                             last_fail |-> NULL])
            /\ trail' = InsertUser(trail, a.username,
                                   [wrong |-> 0, refused_at |-> NULL])
            /\ tasks' = [tasks EXCEPT ![c] = Finished(@, Return("ok"))]
    /\ UNCHANGED <<lists, views, nextId, now, call, sessions, issued, plugins>>

NextSignupRace ==
    \/ \E c \in Conns, username \in RaceUsernames, pin \in SignupPins,
          ip \in Ips :
            create_user_check(c, username, pin, ip)
    \/ \E c \in Conns, salt \in BcryptSalts : create_user_insert(c, salt)

\* signups arriving on two connections
SpecSignupRace == InitRace /\ [][NextSignupRace]_vars

\* create_list, lines 139-154: lower(), the checks and the SELECT
create_list_check(c, username, slug, title, content, is_public) ==
    LET u == Lower(username)
        task == [op |-> "create_list", pc |-> "insert",
                 args |-> [username |-> u, slug |-> slug, title |-> title,
                           content |-> content, is_public |-> is_public],
                 result |-> NULL]
    IN
    /\ tasks[c].pc \in {"idle", "done"}
    /\ tasks' = [tasks EXCEPT ![c] =
                    IF \/ ~is_valid_slug(slug)
                       \/ title.len = 0 \/ title.len > TitleMaxLen
                       \/ content.len = 0 \/ content.len > ContentMaxLen
                       \/ ListRows(lists, u, slug) # {}
                    THEN Finished(task, Raise("ListkyError"))
                    ELSE task]
    /\ UNCHANGED <<users, lists, views, nextId, now, call, trail, sessions,
                   issued, plugins>>

\* lines 157-168: the INSERT and the commit; the lists relation has the
\* primary key id and no constraint on (username, slug)
create_list_insert(c, maxId) ==
    LET a == tasks[c].args IN
    /\ tasks[c].op = "create_list"
    /\ tasks[c].pc = "insert"
    /\ nextId <= maxId
    /\ lists' = lists \cup
            {[id |-> nextId, username |-> a.username, slug |-> a.slug,
              title |-> a.title, content |-> a.content,
              is_public |-> a.is_public, created_at |-> now]}
    /\ nextId' = nextId + 1
    /\ tasks' = [tasks EXCEPT ![c] = Finished(@, Return(nextId))]
    /\ UNCHANGED <<users, views, now, call, trail, sessions, issued, plugins>>

NextListRace ==
    \/ \E c \in Conns, username \in ListUsernames, form \in ListForms :
          \E is_public \in Visibility(form) :
            create_list_check(c, username, form[1], form[2], form[3], is_public)
    \/ \E c \in Conns : create_list_insert(c, MaxRaceListId)

\* lists created on two connections
SpecListRace == InitRace /\ [][NextListRace]_vars

\* the whole service
Next == NextAuth \/ NextLists \/ NextSessions

Spec == Init /\ [][Next]_vars

----
\* The rate limiter and the account service, as the design states them

\* section 4.2: the lockout window as a step function of failed_attempts
ClaimWindow(n) == IF n < 6 THEN 5 ELSE IF n < 8 THEN 15 ELSE 60

\* section 4.2: allowed below 4 failures, else once the window has passed
ClaimAllowed(row, t) ==
    \/ row.failed_attempts < 4
    \/ row.last_fail # NULL /\ t - row.last_fail[1] > ClaimWindow(row.failed_attempts)

\* the step taken is a login for user u
IsLogin(u) ==
    /\ call'.op = "authenticate_user"
    /\ Lower(call'.args.username) = u

\* the PIN of the last call is the PIN of user u
PinMatches(c, row) == row.pin_hash.data = c.args.pin \o PIN_SALT

\* C1: after 4 wrong-PIN logins of an existing user with no successful login
\* in between, a login made no later than the lockout window after the last
\* recorded failure is refused with RateLimitError, whatever PIN it carries.
C1_LockedAfterFourWrong ==
    [][\A u \in DOMAIN users :
         trail[u].wrong >= 4 =>
            /\ trail[u].refused_at # NULL
            /\ (IsLogin(u) /\ now - trail[u].refused_at[1]
                                <= ClaimWindow(users[u].failed_attempts))
                  => call'.result = "RateLimitError"]_vars

\* a login with the right PIN refused after four wrong ones
C1_Witness ==
    /\ call.op = "authenticate_user"
    /\ call.result = "RateLimitError"
    /\ call.before # NULL
    /\ PinMatches(call, call.before[1])
    /\ trail[Lower(call.args.username)].wrong >= 4

\* C2: after a successful login the user's failed_attempts is 0 and last_fail
\* is NULL, whatever they were before.
C2_SuccessResets ==
    (call.op = "authenticate_user" /\ call.result = "ok") =>
        LET u == Lower(call.args.username) IN
        /\ u \in DOMAIN users
        /\ users[u].failed_attempts = 0
        /\ users[u].last_fail = NULL

\* a successful login that found failures recorded
C2_Witness ==
    /\ call.op = "authenticate_user"
    /\ call.result = "ok"
    /\ call.before # NULL
    /\ call.before[1].failed_attempts > 0
    /\ call.before[1].last_fail # NULL
    /\ users[Lower(call.args.username)].failed_attempts = 0

\* C3: a wrong-PIN login of an existing user who is not locked out ends with
\* InvalidCredentialsError, adds exactly 1 to that user's failed_attempts,
\* sets last_fail to the current time and changes no other user's row.
C3_WrongPinCounted ==
    [][\A u \in DOMAIN users :
         (/\ IsLogin(u)
          /\ ClaimAllowed(users[u], now)
          /\ ~PinMatches(call', users[u]))
         => /\ call'.result = "InvalidCredentialsError"
            /\ DOMAIN users' = DOMAIN users
            /\ users'[u].failed_attempts = users[u].failed_attempts + 1
            /\ users'[u].last_fail = Some(now)
            /\ \A v \in DOMAIN users \ {u} : users'[v] = users[v]]_vars

\* a counted failure while another account exists
C3_Witness ==
    /\ call.op = "authenticate_user"
    /\ call.result = "InvalidCredentialsError"
    /\ call.before # NULL
    /\ users[Lower(call.args.username)].failed_attempts
         = call.before[1].failed_attempts + 1
    /\ users[Lower(call.args.username)].last_fail = Some(now)
    /\ Cardinality(DOMAIN users) > 1

\* C4: a login refused with RateLimitError compares no PIN and leaves the
\* users relation as it was; failed_attempts rises only in a step that ends
\* with InvalidCredentialsError for that user.
C4_LockoutPathWritesNothing ==
    [][/\ (call'.op = "authenticate_user" /\ call'.result = "RateLimitError")
            => (~call'.verified /\ users' = users)
       /\ \A u \in DOMAIN users :
            users'[u].failed_attempts > users[u].failed_attempts
            => (IsLogin(u) /\ call'.result = "InvalidCredentialsError")]_vars

\* a refused login, wrong PIN, counter as before
C4_Witness ==
    /\ call.op = "authenticate_user"
    /\ call.result = "RateLimitError"
    /\ ~call.verified
    /\ call.before # NULL
    /\ ~PinMatches(call, call.before[1])
    /\ users[Lower(call.args.username)] = call.before[1]

\* C5: check_rate_limit is the step function of section 4.2: allowed when
\* failed_attempts < 4, else allowed iff now - last_fail is strictly greater
\* than 5 minutes (4 or 5 failures), 15 minutes (6 or 7), 60 minutes (8 or
\* more); at exactly the window it is denied.
C5_StepFunction ==
    \A u \in DOMAIN users :
        LET n == users[u].failed_attempts
            t == users[u].last_fail
            window == IF n \in {4, 5} THEN 5 ELSE IF n \in {6, 7} THEN 15 ELSE 60
        IN  /\ n < 4 => check_rate_limit(u, users, now)
            /\ (n >= 4 /\ t # NULL) =>
                   (check_rate_limit(u, users, now) <=> (now - t[1] > window))

\* refused at exactly the 15-minute boundary
C5_Witness ==
    /\ call.op = "authenticate_user"
    /\ call.result = "RateLimitError"
    /\ call.before # NULL
    /\ call.before[1].failed_attempts \in {6, 7}
    /\ now - call.before[1].last_fail[1] = 15

\* C6: no lockout is permanent: once more than the window in force (at most
\* 60 minutes) has passed since last_fail, check_rate_limit allows the user,
\* and a login with the right PIN made then succeeds.
C6_NoPermanentLockout ==
    [][\A u \in DOMAIN users :
         LET row == users[u] IN
         (/\ row.last_fail # NULL
          /\ \/ now - row.last_fail[1] > ClaimWindow(row.failed_attempts)
             \/ now - row.last_fail[1] > 60)
         => /\ check_rate_limit(u, users, now)
            /\ (IsLogin(u) /\ PinMatches(call', row)) => call'.result = "ok"]_vars

\* a login that succeeded after the 60-minute lockout
C6_Witness ==
    /\ call.op = "authenticate_user"
    /\ call.result = "ok"
    /\ call.before # NULL
    /\ call.before[1].failed_attempts >= 8
    /\ now - call.before[1].last_fail[1] > 60

\* the pairs (upper, lower) of one letter
CasePairs ==
    {<<"A", "a">>, <<"B", "b">>, <<"C", "c">>, <<"X", "x">>, <<"Y", "y">>, <<"Z", "z">>}

\* a and b are equal ignoring letter case
SameIgnoringCase(a, b) ==
    /\ Len(a) = Len(b)
    /\ \A i \in 1..Len(a) :
          \/ a[i] = b[i]
          \/ <<a[i], b[i]>> \in CasePairs
          \/ <<b[i], a[i]>> \in CasePairs

\* C7: no two user rows have usernames equal ignoring case, every stored
\* username is lowercase, and create_user with a valid PIN and a valid
\* username equal ignoring case to a stored one ends with
\* UserAlreadyExistsError and leaves the users relation unchanged.
C7_CaseInsensitiveUnique ==
    [][/\ \A a, b \in DOMAIN users' : SameIgnoringCase(a, b) => a = b
       /\ \A a \in DOMAIN users' : \A i \in 1..Len(a) : a[i] \notin UpperLetters
       /\ (/\ call'.op = "create_user"
           /\ is_valid_username(call'.args.username)
           /\ is_valid_pin(call'.args.pin)
           /\ \E e \in DOMAIN users : SameIgnoringCase(e, call'.args.username))
          => /\ call'.result = "UserAlreadyExistsError"
             /\ users' = users]_vars

\* signup under another spelling of a taken name, refused
C7_Witness ==
    /\ call.op = "create_user"
    /\ call.result = "UserAlreadyExistsError"
    /\ call.args.username \notin DOMAIN users
    /\ \E e \in DOMAIN users : SameIgnoringCase(e, call.args.username)

----
\* View tracking and trending, as the design states them

\* the view row a request makes for list l today
ViewKey(l, request) ==
    [list_id |-> l.id, view_date |-> Today(now),
     ip_hash |-> hash_ip(get_client_ip(request))]

\* the public lists stored under (username, slug)
PublicLists(username, slug) ==
    {l \in lists : l.username = Lower(username) /\ l.slug = slug /\ l.is_public}

\* C8: a view of a public list recorded for the same (list, client IP, day)
\* again leaves one row for that key and the views relation as it was, and
\* the list's count of today's viewers rises by 1 with the first such call
\* and by 0 with every later one; no key is ever held twice.
C8_ViewCountedOnce ==
    [][/\ \A row \in BagToSet(views') : CopiesIn(row, views') = 1
       /\ call'.op = "record_list_view" =>
            \A username \in ListUsernames, slug \in Slugs, request \in Requests :
              \A l \in PublicLists(username, slug) :
                record_list_view(username, slug, request, "none")
                => /\ CopiesIn(ViewKey(l, request), views') = 1
                   /\ BagIn(ViewKey(l, request), views) => views' = views
                   /\ view_count(views', l.id, 0, now)
                        = view_count(views, l.id, 0, now)
                            + (IF BagIn(ViewKey(l, request), views) THEN 0 ELSE 1)]_vars

\* a repeated view: answered, nothing written, the viewer counted once
C8_Witness ==
    /\ call.op = "record_list_view"
    /\ call.result = "True"
    /\ ~call.changed
    /\ \E l \in lists :
          /\ l.is_public
          /\ view_count(views, l.id, 0, now) = 1
          /\ BagCardinality(views) = 1

\* C9 as stated: record_list_view answers True exactly when a view row was
\* inserted.
C9_TrueIffInserted ==
    call.op = "record_list_view" => (call.result = "True" <=> call.changed)

\* C9, amended: for a public list, the answer is True whenever the store took
\* the INSERT OR IGNORE, whether or not a row was added (a repeat writes
\* nothing and is still answered True), and False only when tracking failed;
\* for a private or missing list, or when the lookup fails, it is not True.
C9_TrueUnlessTrackingFails ==
    [][call'.op = "record_list_view" =>
        \A username \in ListUsernames, slug \in Slugs, request \in Requests,
          fault \in Faults :
            record_list_view(username, slug, request, fault)
            => /\ call'.result = "True"
                    <=> (fault = "none" /\ PublicLists(username, slug) # {})
               /\ call'.result = "False" => views' = views
               /\ \A l \in PublicLists(username, slug) :
                     BagIn(ViewKey(l, request), views) => views' = views]_vars

\* a repeat for a key already stored, answered True
C9_Witness ==
    /\ call.op = "record_list_view"
    /\ call.result = "True"
    /\ ~call.changed
    /\ views # EmptyBag

\* C10: no row returned by get_trending belongs to a list that is private
\* when the query runs, however many view rows the list has.
C10_TrendingOnlyPublic ==
    call.op = "get_trending_public_lists" =>
        \A i \in DOMAIN call.value :
            /\ \E l \in lists : l.username = call.value[i].username
                                /\ l.slug = call.value[i].slug
            /\ \A l \in lists :
                  (l.username = call.value[i].username /\ l.slug = call.value[i].slug)
                  => l.is_public

\* a private list with a view dated today, absent from the result
C10_Witness ==
    /\ call.op = "get_trending_public_lists"
    /\ \E l \in lists :
          /\ ~l.is_public
          /\ \E v \in BagToSet(views) : v.list_id = l.id /\ v.view_date = Today(now)
          /\ \A i \in DOMAIN call.value :
                ~(l.username = call.value[i].username /\ l.slug = call.value[i].slug)

----
\* Trending order and counts, as the design states them

\* the stored lists a result row stands for
RowLists(r) == {l \in lists : l.username = r.username /\ l.slug = r.slug}

\* the ip hashes that viewed list l within `days` days of today
WindowViewers(l, days) ==
    {v.ip_hash : v \in {w \in BagToSet(views) :
                          w.list_id = l.id /\ w.view_date >= Today(now) - days}}

\* the public lists with a view in the window
Eligible(days) == {l \in lists : l.is_public /\ WindowViewers(l, days) # {}}

\* rows is cut to `limit` entries and descends by view_count
LimitedDescending(rows, days, limit) ==
    /\ Len(rows) <= limit
    /\ Len(rows) = Min(Cardinality(Eligible(days)), limit)
    /\ \A i, j \in DOMAIN rows : i < j => rows[i].view_count >= rows[j].view_count
    /\ \A i, j \in DOMAIN rows : i # j => RowLists(rows[i]) # RowLists(rows[j])
    /\ \A i \in DOMAIN rows : \E l \in Eligible(days) : l \in RowLists(rows[i])
    /\ \A l \in Eligible(days) :
          (\A i \in DOMAIN rows : l \notin RowLists(rows[i]))
          => \A i \in DOMAIN rows :
                rows[i].view_count >= Cardinality(WindowViewers(l, days))

\* among rows of equal view_count the list created later comes first
NewestFirstOnTies(rows) ==
    \A i, j \in DOMAIN rows :
        (i < j /\ rows[i].view_count = rows[j].view_count)
        => \A l \in RowLists(rows[i]), m \in RowLists(rows[j]) :
              l.created_at >= m.created_at

C12_DistinctViewersInWindow ==
    [][call'.op = "get_trending_public_lists" =>
        \A days \in TrendDays, limit \in TrendLimits :
          get_trending_public_lists(days, limit)
          => \A i \in DOMAIN call'.value :
                \A l \in RowLists(call'.value[i]) :
                    /\ call'.value[i].view_count
                         = Cardinality(WindowViewers(l, days))
                    /\ call'.value[i].view_count
                         <= Cardinality({v \in BagToSet(views) :
                                /\ v.list_id = l.id
                                /\ v.view_date >= Today(now) - days})]_vars

\* a list viewed by one hashed IP on two days, returned with view_count 1
C12_Witness ==
    /\ call.op = "get_trending_public_lists"
    /\ \E i \in DOMAIN call.value :
          /\ call.value[i].view_count = 1
          /\ \E l \in RowLists(call.value[i]) :
                \E v, w \in BagToSet(views) :
                    /\ v.list_id = l.id /\ w.list_id = l.id
                    /\ v.ip_hash = w.ip_hash
                    /\ v.view_date < w.view_date

----
\* The gate and the failures of record_list_view, as the design states them

\* C13 as stated: record_list_view adds a view row only if the (username,
\* slug) list exists and is public when it is called; for a private or
\* missing list it returns false and leaves the views relation as it was.
C13_GatedOnPublic ==
    [][call'.op = "record_list_view" =>
        \A username \in ListUsernames, slug \in Slugs, request \in Requests,
          fault \in Faults :
            record_list_view(username, slug, request, fault)
            => /\ views' # views => PublicLists(username, slug) # {}
               /\ PublicLists(username, slug) = {}
                    => call'.result = "False" /\ views' = views]_vars

\* the part of C13 that holds whatever fails: a view row is added only for a
\* list that is stored and public, it is a row of that list dated today, and
\* a private or missing list is never answered True
C13_NoRowUnlessPublic ==
    [][call'.op = "record_list_view" =>
        \A username \in ListUsernames, slug \in Slugs, request \in Requests,
          fault \in Faults :
            record_list_view(username, slug, request, fault)
            => /\ views' # views
                    => \E l \in PublicLists(username, slug) :
                          views' = views (+) SetToBag({ViewKey(l, request)})
               /\ PublicLists(username, slug) = {}
                    => call'.result # "True" /\ views' = views
               /\ (PublicLists(username, slug) = {} /\ fault # "lookup")
                    => call'.result = "False"]_vars

\* C14 as stated: record_list_view never raises; a store failure during the
\* list lookup or the view insert is absorbed and the call returns false.
C14_NeverRaises ==
    [][call'.op = "record_list_view" =>
        \A username \in ListUsernames, slug \in Slugs, request \in Requests,
          fault \in Faults :
            record_list_view(username, slug, request, fault)
            => /\ call'.result \in {"True", "False"}
               /\ fault # "none" => call'.result = "False"]_vars

\* the part of C14 that holds: a failure of the view insert is absorbed and
\* answered False with no row written
C14_InsertFailureAbsorbed ==
    [][call'.op = "record_list_view" =>
        \A username \in ListUsernames, slug \in Slugs, request \in Requests :
            record_list_view(username, slug, request, "insert")
            => call'.result = "False" /\ views' = views]_vars

----
\* Sessions, as the design states them

\* section 4.3: expiry = now + 24h, in minutes
ClaimSessionMinutes == 24 * 60

\* token was given out by create_session and not cleared since
IsIssued(token) == token \in DOMAIN issued

\* the step leaves every entry of the map but that of token as it was
OthersKept(token) ==
    \A k \in DOMAIN sessions \ {token} :
        k \in DOMAIN sessions' /\ sessions'[k] = sessions[k]

\* C15: get_session_user on a token create_session(u) returned, looked up
\* no later than 24 hours after and before any clear_session of it, returns
\* u and leaves the map as it was.
C15_IssuedTokenResolves ==
    [][call'.op = "get_session_user" =>
        \A cookie \in Tokens :
          (/\ call'.args = cookie
           /\ get_session_user(cookie)
           /\ IsIssued(cookie)
           /\ now <= issued[cookie].at + ClaimSessionMinutes)
          => /\ call'.value = Some(issued[cookie].username)
             /\ sessions' = sessions]_vars

\* a token resolved at the last minute of its 24 hours
C15_Witness ==
    /\ call.op = "get_session_user"
    /\ call.value # NULL
    /\ IsIssued(call.args)
    /\ call.value = Some(issued[call.args].username)
    /\ now = issued[call.args].at + ClaimSessionMinutes

\* C16: a lookup of a token later than 24 hours after its create_session
\* returns none, removes the entry of that token and of no other; entries
\* leave the map only through a lookup or a clear of their own token (an
\* expired entry stays until it is looked up).
C16_ExpiredEvictedOnLookup ==
    [][/\ call'.op = "get_session_user" =>
          \A cookie \in Tokens :
            (/\ call'.args = cookie
             /\ get_session_user(cookie)
             /\ IsIssued(cookie)
             /\ now > issued[cookie].at + ClaimSessionMinutes)
            => /\ call'.value = NULL
               /\ cookie \notin DOMAIN sessions'
               /\ DOMAIN sessions' = DOMAIN sessions \ {cookie}
               /\ OthersKept(cookie)
       /\ \A t \in DOMAIN sessions :
            t \notin DOMAIN sessions'
            => /\ call'.op \in {"get_session_user", "clear_session"}
               /\ call'.args = t]_vars

\* an expired token looked up and evicted while another expired entry stays
C16_Witness ==
    /\ call.op = "get_session_user"
    /\ call.value = NULL
    /\ call.changed
    /\ call.args \notin DOMAIN sessions
    /\ \E t \in DOMAIN sessions : now > sessions[t].expires

\* C17: clear_session(token) removes the entry of token if there is one and
\* does nothing if there is none (so a second call changes nothing), keeps
\* every other entry, and a later lookup of the token returns none.
C17_ClearIdempotent ==
    [][/\ call'.op = "clear_session" =>
          \A token \in Tokens :
            (call'.args = token /\ clear_session(token))
            => /\ DOMAIN sessions' = DOMAIN sessions \ {token}
               /\ OthersKept(token)
               /\ token \notin DOMAIN sessions => sessions' = sessions
       /\ call'.op = "get_session_user" =>
          \A cookie \in Tokens :
            (call'.args = cookie /\ get_session_user(cookie) /\ ~IsIssued(cookie))
            => call'.value = NULL /\ sessions' = sessions]_vars

\* a second clear of a token, nothing removed, another session still held
C17_Witness ==
    /\ call.op = "clear_session"
    /\ ~call.changed
    /\ call.args \notin DOMAIN sessions
    /\ DOMAIN sessions # {}

----
\* Uniqueness under concurrent callers, as the design states it

\* connections c and d have both finished a create_user for the same
\* username, each having found the name free
Raced(c, d) ==
    /\ c # d
    /\ tasks[c].op = "create_user" /\ tasks[d].op = "create_user"
    /\ tasks[c].pc = "done" /\ tasks[d].pc = "done"
    /\ tasks[c].args.username = tasks[d].args.username
    /\ tasks[c].result # Raise("ListkyError")
    /\ tasks[d].result # Raise("ListkyError")

\* C19 as stated: of two create_user calls for the same username that both
\* pass the existence check before either inserts, one creates the record
\* and the other ends with UserAlreadyExistsError.
C19_LoserGetsAlreadyExists ==
    \A c, d \in Conns :
        (Raced(c, d) /\ tasks[c].result = Return("ok"))
        => /\ tasks[c].args.username \in DOMAIN users
           /\ tasks[d].result = Raise("UserAlreadyExistsError")

\* the part of C19 that holds: the primary key lets one of the two calls
\* create the record and refuses the other
C19_OneRecordCreated ==
    \A c, d \in Conns :
        (Raced(c, d) /\ tasks[c].result = Return("ok"))
        => /\ tasks[c].args.username \in DOMAIN users
           /\ tasks[d].result # Return("ok")

\* C20 as stated: at every reachable state, interleavings of concurrent
\* create_list calls included, no two list rows share (username, slug).
C20_SlugUniquePerOwner ==
    \A l, m \in lists : (l.username = m.username /\ l.slug = m.slug) => l = m

----
\* Lists: deletion, missing lists, validation and conflicts

\* C21 as stated: after delete_list(username, slug) succeeds, no view row
\* referencing the id of a deleted list remains in the views relation.
C21_ViewsRemovedWithList ==
    [][call'.op = "delete_list" =>
        \A username \in ListUsernames, slug \in Slugs :
            (delete_list(username, slug) /\ call'.result = "ok")
            => \A l \in ListRows(lists, Lower(username), slug) :
                  \A v \in BagToSet(views') : v.list_id # l.id]_vars

\* title and content as update_list and create_list accept them
FieldsValid(title, content) ==
    /\ title.len >= 1 /\ title.len <= 200
    /\ content.len >= 1 /\ content.len <= 10000

\* every (username, slug) pair a list call may name
ListPairs == {<<Lower(username), form[1]>> : username \in ListUsernames, form \in ListForms}

\* C22 as stated: update_list and delete_list on a (username, slug) pair that
\* has no list row fail with NotFound and leave the store unchanged; after
\* delete_list succeeds the pair has no row, and it has none until a
\* create_list for it succeeds.
C22_MissingIsNotFound ==
    [][/\ call'.op = "update_list" =>
            \A username \in ListUsernames, form \in ListForms :
              \A is_public \in Visibility(form) :
                (/\ ListRows(lists, Lower(username), form[1]) = {}
                 /\ update_list(username, form[1], form[2], form[3], is_public))
                => /\ call'.result = "ListNotFoundError"
                   /\ lists' = lists /\ views' = views /\ users' = users
       /\ call'.op = "delete_list" =>
            \A username \in ListUsernames, slug \in Slugs :
                delete_list(username, slug)
                => /\ ListRows(lists, Lower(username), slug) = {}
                        => /\ call'.result = "ListNotFoundError"
                           /\ lists' = lists /\ views' = views /\ users' = users
                   /\ call'.result = "ok"
                        => ListRows(lists', Lower(username), slug) = {}
       /\ lists' # lists =>
            \A pair \in ListPairs :
                (ListRows(lists, pair[1], pair[2]) = {}
                    /\ ListRows(lists', pair[1], pair[2]) # {})
                => call'.op = "create_list" /\ call'.result = "ok"]_vars

\* C22, amended: update_list checks title and content before it looks for the
\* row, so on a pair without a row it fails with NotFound when the fields
\* pass the checks and with the input error when they do not; delete_list on
\* such a pair fails with NotFound; in each case the store is unchanged.
\* After delete_list succeeds the pair has no row, and it has none until a
\* create_list for it succeeds.
C22_MissingIsNotFoundOnceValid ==
    [][/\ call'.op = "update_list" =>
            \A username \in ListUsernames, form \in ListForms :
              \A is_public \in Visibility(form) :
                \/ ListRows(lists, Lower(username), form[1]) # {}
                \/ /\ call'.result = IF FieldsValid(form[2], form[3])
                                      THEN "ListNotFoundError" ELSE "ListkyError"
                   /\ lists' = lists /\ views' = views /\ users' = users
                \/ ~update_list(username, form[1], form[2], form[3], is_public)
       /\ call'.op = "delete_list" =>
            \A username \in ListUsernames, slug \in Slugs :
                delete_list(username, slug)
                => /\ ListRows(lists, Lower(username), slug) = {}
                        => /\ call'.result = "ListNotFoundError"
                           /\ lists' = lists /\ views' = views /\ users' = users
                   /\ call'.result = "ok"
                        => ListRows(lists', Lower(username), slug) = {}
       /\ lists' # lists =>
            \A pair \in ListPairs :
                (ListRows(lists, pair[1], pair[2]) = {}
                    /\ ListRows(lists', pair[1], pair[2]) # {})
                => call'.op = "create_list" /\ call'.result = "ok"]_vars

\* a list was created and deleted, and a further delete of it is refused
C22_Witness ==
    /\ call.op = "delete_list"
    /\ call.result = "ListNotFoundError"
    /\ nextId > 1
    /\ lists = {}

----
\* Submitted forms: what the validators let through to the store

Repeat(c, n) == [i \in 1..n |-> c]

\* usernames as a signup form may carry them: well formed, too short, at and
\* over the length limit, with a character outside the class, and with a
\* line feed after a well-formed name
FormUsernames ==
    {Abc, <<"a", "b">>, Repeat("a", UsernameMaxLen), Repeat("a", UsernameMaxLen + 1),
     <<"a", "-", "c">>, Append(Abc, "\n")}

FormPins ==
    {Pin1, <<"1", "2", "3">>, <<"1", "2", "3", "4", "5", "x">>, Append(Pin1, "\n")}

\* list forms: those of ListForms, and slugs that are empty, over the length
\* limit, or end in a line feed
FormLists ==
    ListForms \cup
    {<<<<>>, Todo, BuyMilk>>,
     <<Repeat("x", SlugMaxLen + 1), Todo, BuyMilk>>,
     <<Append(SlugX, "\n"), Todo, BuyMilk>>}

SubmitUser ==
    \E username \in FormUsernames, pin \in FormPins :
        create_user(username, pin, Ip1, "g1")

SubmitList ==
    \E form \in FormLists :
        create_list(Xyz, form[1], form[2], form[3], TRUE, MaxFormListId)

SubmitUpdate ==
    \E form \in FormLists :
        update_list(Xyz, form[1], form[2], form[3], FALSE)

NextForms == SubmitUser \/ SubmitList \/ SubmitUpdate

SpecForms == Init /\ [][NextForms]_vars

\* section 5: a username is 3-20 alphanumerics, a PIN exactly 6 digits, a
\* slug 1-50 alphanumerics and hyphens
ClaimValidUsername(s) == Len(s) >= 3 /\ Len(s) <= 20 /\ \A i \in 1..Len(s) : s[i] \in Alnum
ClaimValidPin(s) == Len(s) = 6 /\ \A i \in 1..Len(s) : s[i] \in Digits
ClaimValidSlug(s) ==
    Len(s) >= 1 /\ Len(s) <= 50 /\ \A i \in 1..Len(s) : s[i] \in Alnum \cup {"-"}

StoreUnchanged == users' = users /\ lists' = lists /\ views' = views

\* C23 as stated: create_user with a username that is not 3-20 alphanumerics
\* or a PIN that is not exactly 6 digits, create_list with an invalid slug,
\* and create_list or update_list with an empty or over-long title or
\* content, all fail with the input error and leave users, lists and views
\* unchanged.
C23_InvalidInputRejected ==
    [][/\ call'.op = "create_user" =>
            \A username \in FormUsernames, pin \in FormPins :
                (/\ create_user(username, pin, Ip1, "g1")
                 /\ ~ClaimValidUsername(username) \/ ~ClaimValidPin(pin))
                => call'.result = "ListkyError" /\ StoreUnchanged
       /\ call'.op = "create_list" =>
            \A form \in FormLists :
                (/\ create_list(Xyz, form[1], form[2], form[3], TRUE, MaxFormListId)
                 /\ ~ClaimValidSlug(form[1]) \/ ~FieldsValid(form[2], form[3]))
                => call'.result = "ListkyError" /\ StoreUnchanged
       /\ call'.op = "update_list" =>
            \A form \in FormLists :
                (/\ update_list(Xyz, form[1], form[2], form[3], FALSE)
                 /\ ~FieldsValid(form[2], form[3]))
                => call'.result = "ListkyError" /\ StoreUnchanged]_vars

\* the part of C23 that holds: whatever the validators of the code reject
\* fails with the input error before the store is touched
C23_RejectedBeforeStore ==
    [][/\ call'.op = "create_user" =>
            \A username \in FormUsernames, pin \in FormPins :
                (/\ create_user(username, pin, Ip1, "g1")
                 /\ ~is_valid_username(Lower(username)) \/ ~is_valid_pin(pin))
                => call'.result = "ListkyError" /\ StoreUnchanged
       /\ call'.op = "create_list" =>
            \A form \in FormLists :
                (/\ create_list(Xyz, form[1], form[2], form[3], TRUE, MaxFormListId)
                 /\ ~is_valid_slug(form[1]) \/ ~FieldsValid(form[2], form[3]))
                => call'.result = "ListkyError" /\ StoreUnchanged
       /\ call'.op = "update_list" =>
            \A form \in FormLists :
                (/\ update_list(Xyz, form[1], form[2], form[3], FALSE)
                 /\ ~FieldsValid(form[2], form[3]))
                => call'.result = "ListkyError" /\ StoreUnchanged]_vars

\* the error class create_list raises when a check of its input fails
\* (api/__init__.py:141-148 raise the base ListkyError)
ValidationErrorKind == "ListkyError"

\* C24 as stated: create_list for a (username, slug) pair that already exists
\* fails with an error of a kind other than that of a validation error, and
\* leaves the lists relation unchanged.
C24_ConflictErrorOfItsOwnKind ==
    [][call'.op = "create_list" =>
        \A username \in ListUsernames, is_public \in BOOLEAN :
            (/\ create_list(username, SlugX, Todo, BuyMilk, is_public, MaxTrendListId)
             /\ ListRows(lists, Lower(username), SlugX) # {})
            => /\ call'.result \notin {"ok", ValidationErrorKind}
               /\ lists' = lists]_vars

\* C24, amended: create_list for a pair that already exists fails with the
\* base ListkyError, the class its validation errors are raised with, and
\* leaves the lists relation unchanged (no id is used up either).
C24_ConflictIsListkyError ==
    [][call'.op = "create_list" =>
        \A username \in ListUsernames, is_public \in BOOLEAN :
            (/\ create_list(username, SlugX, Todo, BuyMilk, is_public, MaxTrendListId)
             /\ ListRows(lists, Lower(username), SlugX) # {})
            => /\ call'.result = ValidationErrorKind
               /\ lists' = lists
               /\ nextId' = nextId]_vars

\* a valid form refused while an id was still to be had: SpecTrending submits
\* valid forms only, so the refusal is that of the pair already stored
C24_Witness ==
    /\ call.op = "create_list"
    /\ call.result = "ListkyError"
    /\ nextId <= MaxTrendListId
    /\ \E l \in lists : l.slug = SlugX

----
\* Logins, as the design states them

\* C25: check_rate_limit allows every username that has no user record, and
\* a login under such a username ends with InvalidCredentialsError, never
\* RateLimitError, compares no PIN, and leaves the users relation as it was:
\* no row is created and none is changed, so the next attempt finds the same.
C25_UnknownUserNeverLimited ==
    [][/\ \A name \in LoginUsernames :
            Lower(name) \notin DOMAIN users => check_rate_limit(Lower(name), users, now)
       /\ (call'.op = "authenticate_user"
              /\ Lower(call'.args.username) \notin DOMAIN users)
            => /\ call'.result = "InvalidCredentialsError"
               /\ ~call'.verified
               /\ users' = users]_vars

\* a login under a name nobody holds, answered while an account is locked out
C25_Witness ==
    /\ call.op = "authenticate_user"
    /\ call.before = NULL
    /\ call.result = "InvalidCredentialsError"
    /\ Lower(call.args.username) \notin DOMAIN users
    /\ \E v \in DOMAIN users : ~check_rate_limit(v, users, now)

----
\* The login handler: authenticate_user, then create_session for the
\* username it returned; the handler runs on the event loop without
\* suspending, so the two are one step

\* one name signs up, under one spelling; logins come under both spellings
\* of it and under a name that has no account
LoginSignupNames == {AbC}
LoginNames == {Abc, AbC, Xyz}

\* login that opens the session before it authenticates
login_session_first(username, pin, client_ip, token, maxFailed) ==
    /\ authenticate_user_body(username, pin, client_ip, maxFailed)
    /\ token \notin DOMAIN sessions
    /\ sessions' = SetItem(sessions, token,
                           [username |-> Lower(username),
                            expires |-> now + SessionLifetime])
    /\ issued' = SetItem(issued, token, [username |-> Lower(username), at |-> now])
    /\ UNCHANGED <<lists, views, nextId, now, tasks, plugins>>

\* login that opens the session under the name as it was typed
login_name_as_typed(username, pin, client_ip, token, maxFailed) ==
    /\ authenticate_user_body(username, pin, client_ip, maxFailed)
    /\ IF call'.result = "ok"
       THEN /\ token \notin DOMAIN sessions
            /\ sessions' = SetItem(sessions, token,
                                   [username |-> username,
                                    expires |-> now + SessionLifetime])
            /\ issued' = SetItem(issued, token, [username |-> username, at |-> now])
       ELSE UNCHANGED <<sessions, issued>>
    /\ UNCHANGED <<lists, views, nextId, now, tasks, plugins>>

\* POST /login; token is what create_session draws. An exception of
\* authenticate_user leaves the try block before create_session is reached
login(username, pin, client_ip, token, maxFailed) ==
    /\ authenticate_user_body(username, pin, client_ip, maxFailed)
    /\ IF call'.result = "ok"
       THEN /\ token \notin DOMAIN sessions
            /\ sessions' = SetItem(sessions, token,
                                   [username |-> call'.value,
                                    expires |-> now + SessionLifetime])
            /\ issued' = SetItem(issued, token, [username |-> call'.value, at |-> now])
       ELSE UNCHANGED <<sessions, issued>>
    /\ UNCHANGED <<lists, views, nextId, now, tasks, plugins>>

LoginSignup ==
    \E username \in LoginSignupNames : create_user(username, Pin1, Ip1, "g1")

Login ==
    \E username \in LoginNames, pin \in LoginPins, token \in Tokens :
        login(username, pin, Ip1, token, MaxLoginFailed)

LoginLookup == \E cookie \in Cookies : get_session_user(cookie)

Logout == \E token \in Tokens : clear_session(token)

\* twelve hours pass
LoginHalfDay ==
    /\ now < MaxLoginHalfDays * HalfDay
    /\ now' = now + HalfDay
    /\ call' = [NoCall EXCEPT !.op = "tick"]
    /\ UNCHANGED <<users, lists, views, nextId, trail, sessions, issued, tasks, plugins>>

NextLogin == LoginSignup \/ Login \/ LoginLookup \/ Logout \/ LoginHalfDay

SpecLogin == Init /\ [][NextLogin]_vars

\* C26: create_user stores the PIN it was given and no later step changes
\* it; a login of an existing user with that PIN, the user not locked out,
\* succeeds and opens a session under the lowercased username, and
\* get_session_user on the token of a session opened by a login, not yet
\* expired or cleared, answers that lowercased username; a login of an
\* existing user with any other PIN does not succeed and opens no session.
C26_SignupThenLogin ==
    [][/\ (call'.op = "create_user" /\ call'.result = "ok")
            => /\ call'.value = Lower(call'.args.username)
               /\ PinMatches(call', users'[call'.value])
       /\ \A u \in DOMAIN users : users'[u].pin_hash = users[u].pin_hash
       /\ call'.op = "authenticate_user" =>
            \A name \in LoginNames, pin \in LoginPins, token \in Tokens :
                (/\ login(name, pin, Ip1, token, MaxLoginFailed)
                 /\ Lower(name) \in DOMAIN users)
                => LET row == users[Lower(name)] IN
                   /\ (PinMatches(call', row) /\ ClaimAllowed(row, now))
                        => /\ call'.result = "ok"
                           /\ token \in DOMAIN sessions' \ DOMAIN sessions
                           /\ sessions'[token].username = Lower(name)
                           /\ issued'[token] = [username |-> Lower(name), at |-> now]
                   /\ ~PinMatches(call', row)
                        => /\ call'.result # "ok"
                           /\ sessions' = sessions
       /\ call'.op = "get_session_user" =>
            \A cookie \in Tokens :
                (/\ call'.args = cookie
                 /\ get_session_user(cookie)
                 /\ IsIssued(cookie)
                 /\ now <= issued[cookie].at + ClaimSessionMinutes)
                => call'.value = Some(issued[cookie].username)]_vars

\* a login typed in capitals with the PIN of signup: it succeeded and its
\* session is held under the lowercase name
C26_Witness ==
    /\ call.op = "authenticate_user"
    /\ call.result = "ok"
    /\ call.args.username = AbC
    /\ call.before # NULL
    /\ PinMatches(call, call.before[1])
    /\ \E token \in DOMAIN sessions :
          /\ sessions[token].username = Abc
          /\ issued[token].at = now

\* C30: a login that does not end in success leaves the session map as it
\* was; a session enters the map only in a login step that succeeded, under
\* the username authenticate_user returned; and every session held is that
\* of a user who has a record.
C30_SessionOnlyAfterSuccess ==
    [][/\ (call'.op = "authenticate_user" /\ call'.result # "ok")
            => sessions' = sessions
       /\ \A token \in DOMAIN sessions' :
            (token \notin DOMAIN sessions \/ sessions'[token] # sessions[token])
            => /\ call'.op = "authenticate_user"
               /\ call'.result = "ok"
               /\ sessions'[token].username = call'.value
       /\ \A token \in DOMAIN sessions' :
            sessions'[token].username \in DOMAIN users']_vars

\* a login refused by the rate limiter while a session is held
C30_Witness ==
    /\ call.op = "authenticate_user"
    /\ call.result = "RateLimitError"
    /\ DOMAIN sessions # {}
    /\ \A token \in DOMAIN sessions : sessions[token].username \in DOMAIN users

----
\* Plugins: callbacks are registered and events emitted

\* the callbacks a plugin may register: two names for each kind
Callbacks == {[name |-> n, does |-> d] : n \in {"p1", "p2"}, d \in HandlerKinds}

HookEvents == {"user_created", "list_viewed"}

\* the events emitted: list_deleted is one nothing registers for
EmittedEvents == HookEvents \cup {"list_deleted"}

\* the callbacks held by the registry
Registered(registry) ==
    LET RECURSIVE Sum(_)
        Sum(E) == IF E = {} THEN 0
                  ELSE LET e == CHOOSE x \in E : TRUE
                       IN  Len(registry[e]) + Sum(E \ {e})
    IN  Sum(DOMAIN registry)

\* register_hook(event, callback): _plugins[event].append(callback)
register_hook(event, cb) ==
    /\ plugins' = IF event \notin DOMAIN plugins
                  THEN [k \in DOMAIN plugins \cup {event} |->
                            IF k = event THEN <<cb>> ELSE plugins[k]]
                  ELSE [plugins EXCEPT ![event] = Append(@, cb)]
    /\ call' = [NoCall EXCEPT !.op = "register_hook", !.args = event]
    /\ UNCHANGED <<users, lists, views, nextId, now, trail, sessions, issued, tasks>>

\* a core call reaches its hook: emit_event(event, data)
Emit(event) ==
    LET out == emit_event(plugins, event, [username |-> Abc]) IN
    /\ call' = [NoCall EXCEPT !.op = "emit_event", !.args = event,
                              !.result = IF out.raised = NULL THEN "ok"
                                         ELSE out.raised[1],
                              !.value = out.data,
                              !.emitted = out.invoked]
    /\ UNCHANGED <<users, lists, views, nextId, now, trail, sessions, issued, tasks,
                   plugins>>

RegisterHook ==
    \E event \in HookEvents, cb \in Callbacks :
        /\ Registered(plugins) < MaxHandlers
        /\ register_hook(event, cb)

EmitEvent == \E event \in EmittedEvents : Emit(event)

NextEmit == RegisterHook \/ EmitEvent

SpecEmit == Init /\ [][NextEmit]_vars

\* the callbacks emit_event calls for an event, in the order it calls them
Invoked(registry, event) == emit_event(registry, event, [username |-> Abc]).invoked

\* the name of the last callback of an emit that returned a dict, if any
RECURSIVE LastUpdating(_, _)
LastUpdating(callbacks, i) ==
    IF i = 0 THEN NULL
    ELSE IF callbacks[i].does = "updates" THEN Some(callbacks[i].name)
    ELSE LastUpdating(callbacks, i - 1)

\* C27: with nothing registered emit_event calls nothing; registering a
\* callback for an event adds it at the end of the callbacks emit_event calls
\* for that event, whatever the callbacks before it do (return, update the
\* data or raise), and changes nothing for other events; so every emit calls
\* all callbacks of its event in registration order, returns normally, and
\* hands back the data as the last callback that returned a dict left it.
C27_AllHandlersInOrder ==
    [][/\ \A event \in EmittedEvents :
            event \notin DOMAIN plugins => Invoked(plugins, event) = <<>>
       /\ call'.op = "register_hook" =>
            \A event \in HookEvents, cb \in Callbacks :
                register_hook(event, cb)
                => \A e \in EmittedEvents :
                      Invoked(plugins', e) =
                        IF e = event THEN Append(Invoked(plugins, e), cb.name)
                        ELSE Invoked(plugins, e)
       /\ call'.op = "emit_event" =>
            \A event \in EmittedEvents :
                Emit(event)
                => /\ call'.emitted = Invoked(plugins, event)
                   /\ call'.result = "ok"
                   /\ event \in DOMAIN plugins =>
                        /\ Len(call'.emitted) = Len(plugins[event])
                        /\ LET last == LastUpdating(plugins[event], Len(plugins[event]))
                           IN  IF last = NULL
                               THEN call'.value = [username |-> Abc]
                               ELSE call'.value.handled_by = last[1]]_vars

\* an emit that called three callbacks, the first of which raised
C27_Witness ==
    /\ call.op = "emit_event"
    /\ call.args \in DOMAIN plugins
    /\ Len(plugins[call.args]) = 3
    /\ plugins[call.args][1].does = "throws"
    /\ plugins[call.args][2].does = "updates"
    /\ call.emitted = [i \in 1..3 |-> plugins[call.args][i].name]
    /\ call.emitted[1] # call.emitted[2]

----
\* The core calls with plugins registered for their events

\* the events of the six core calls that emit one
CoreEvents ==
    {"user_created", "user_login", "list_created", "list_updated", "list_deleted",
     "list_viewed"}

\* a plugin of each kind that touches the event: one raises, one returns a
\* dict
HookCallbacks ==
    {[name |-> "p1", does |-> "throws"], [name |-> "p2", does |-> "updates"]}

HookRegister ==
    \E event \in CoreEvents, cb \in HookCallbacks :
        /\ Registered(plugins) < MaxHooks
        /\ register_hook(event, cb)

HookSignup == create_user(AbC, Pin1, Ip1, "g1")

HookLogin == \E pin \in LoginPins : authenticate_user(AbC, pin, Ip1, MaxHookFailed)

HookCreate == create_list(AbC, SlugX, Todo, BuyMilk, TRUE, MaxHookListId)

HookUpdate == \E is_public \in BOOLEAN : update_list(AbC, SlugX, Todo, BuyMilk, is_public)

HookDelete == delete_list(AbC, SlugX)

HookView == \E request \in Requests : record_list_view(AbC, SlugX, request, "none")

NextHooks ==
    \/ HookRegister
    \/ HookSignup
    \/ HookLogin
    \/ HookCreate
    \/ HookUpdate
    \/ HookDelete
    \/ HookView

SpecHooks == Init /\ [][NextHooks]_vars

\* the six calls of C28 and the event each emits when it succeeds
CoreCalls ==
    {<<"create_user", "user_created">>, <<"authenticate_user", "user_login">>,
     <<"create_list", "list_created">>, <<"update_list", "list_updated">>,
     <<"delete_list", "list_deleted">>, <<"record_list_view", "list_viewed">>}

\* what the core calls return or raise of their own
OwnOutcomes ==
    {"ok", "True", "False", "ListkyError", "UserAlreadyExistsError",
     "InvalidCredentialsError", "RateLimitError", "ListNotFoundError"}

\* C28: whatever callbacks are registered, raising ones included, emit_event
\* lets no exception out and so gives the core call what it gives it with
\* nothing registered; every step of a core call ends with an outcome of the
\* call's own, a call that succeeds has called the callbacks of its event,
\* and a call that fails has called none and left the store as it was.
C28_ThrowingHandlerIsolated ==
    [][/\ \A event \in CoreEvents :
            emit_event(plugins, event, <<>>).raised
                = emit_event(<<>>, event, <<>>).raised
       /\ \A c \in CoreCalls :
            call'.op = c[1]
            => /\ call'.result \in OwnOutcomes
               /\ plugins' = plugins
               /\ call'.result \in {"ok", "True"}
                    => call'.emitted = Invoked(plugins, c[2])
               /\ call'.result \notin {"ok", "True"}
                    => /\ call'.emitted = <<>>
                       /\ call'.result \notin {"InvalidCredentialsError", "False"}
                            => (users' = users /\ lists' = lists /\ views' = views)]_vars

\* a list created while a callback that raises listens to list_created: the
\* callback was called, the call returned the new id and the row is stored
C28_Witness ==
    /\ call.op = "create_list"
    /\ call.result = "ok"
    /\ "list_created" \in DOMAIN plugins
    /\ plugins["list_created"][1].does = "throws"
    /\ call.emitted = <<"p1">>
    /\ \E l \in lists : l.id = call.value

----
\* Logins racing: every request runs authenticate_user on a connection of
\* its own (get_db), and the statements of requests served by different
\* workers interleave

\* the login requests in flight
LoginRequests == {"r1", "r2", "r3", "r4", "r5"}

\* the account exists, with no failure recorded, and the clock stands still,
\* so that no lockout window runs out
InitLoginRace ==
    /\ users = InsertUser(<<>>, Abc, StoredUser(0))
    /\ lists = {}
    /\ views = EmptyBag
    /\ nextId = 1
    /\ now = 0
    /\ call = NoCall
    /\ trail = <<>>
    /\ sessions = <<>>
    /\ issued = <<>>
    /\ tasks = [r \in LoginRequests |-> IdleConn]
    /\ plugins = <<>>

LoginRaceFrame ==
    UNCHANGED <<lists, views, nextId, now, call, trail, sessions, issued, plugins>>

\* authenticate_user, lines 80-83: lower() and check_rate_limit, whose SELECT
\* reads the counter as it is now
login_check(r, username, pin, client_ip) ==
    LET u == Lower(username)
        task == [op |-> "authenticate_user", pc |-> "select",
                 args |-> [username |-> u, pin |-> pin, client_ip |-> client_ip],
                 result |-> NULL]
    IN
    /\ tasks[r].pc = "idle"
    /\ tasks' = [tasks EXCEPT ![r] =
                    IF ~check_rate_limit(u, users, now)
                    THEN Finished(task, Raise("RateLimitError"))
                    ELSE task]
    /\ users' = users
    /\ LoginRaceFrame

\* lines 85-89 with the limiter asked again before the PIN is compared
login_select_rechecked(r) ==
    LET a == tasks[r].args IN
    /\ tasks[r].op = "authenticate_user"
    /\ tasks[r].pc = "select"
    /\ tasks' = [tasks EXCEPT ![r] =
                    IF ~check_rate_limit(a.username, users, now)
                    THEN Finished(@, Raise("RateLimitError"))
                    ELSE [@ EXCEPT !.pc = "record",
                                   !.result =
                                        Some(a.username \in DOMAIN users
                                             /\ verify_pin(a.pin,
                                                   users[a.username].pin_hash))]]
    /\ users' = users
    /\ LoginRaceFrame

\* lines 85-89: SELECT pin_hash and verify_pin; the result is kept in a
\* local until the UPDATE runs
login_select(r) ==
    LET a == tasks[r].args IN
    /\ tasks[r].op = "authenticate_user"
    /\ tasks[r].pc = "select"
    /\ tasks' = [tasks EXCEPT ![r] =
                    [@ EXCEPT !.pc = "record",
                              !.result =
                                   Some(a.username \in DOMAIN users
                                        /\ verify_pin(a.pin,
                                              users[a.username].pin_hash))]]
    /\ users' = users
    /\ LoginRaceFrame

\* lines 90-111: the UPDATE of the branch taken, and the commit
login_record(r) ==
    LET a == tasks[r].args IN
    /\ tasks[r].op = "authenticate_user"
    /\ tasks[r].pc = "record"
    /\ IF tasks[r].result = Some(TRUE)
       THEN /\ users' = RecordSuccess(users, a.username, a.client_ip)
            /\ tasks' = [tasks EXCEPT ![r] = Finished(@, Return("ok"))]
       ELSE /\ users' = RecordFailure(users, a.username, now)
            /\ tasks' = [tasks EXCEPT ![r] =
                            Finished(@, Raise("InvalidCredentialsError"))]
    /\ LoginRaceFrame

NextLoginRace ==
    \/ \E r \in LoginRequests, pin \in LoginPins : login_check(r, AbC, pin, Ip1)
    \/ \E r \in LoginRequests : login_select(r)
    \/ \E r \in LoginRequests : login_record(r)

SpecLoginRace == InitLoginRace /\ [][NextLoginRace]_vars

\* the requests that ended with the given exception
Ended(exception) ==
    {r \in LoginRequests : tasks[r].pc = "done" /\ tasks[r].result = Raise(exception)}

\* C29: check_rate_limit is asked once, when the request starts; a request it
\* let through has its PIN compared and its failure recorded whatever other
\* requests have recorded since, and is not denied; a request is denied only
\* if four failures were on record when it asked. So the requests in flight
\* that asked before the fourth failure was recorded are all compared.
C29_CheckedOnceThenCompared ==
    [][/\ \A r \in LoginRequests :
            (tasks[r].pc \in {"select", "record"} /\ tasks'[r] # tasks[r])
            => /\ tasks'[r].result # Raise("RateLimitError")
               /\ (tasks[r].pc = "record" /\ tasks[r].result = Some(FALSE))
                    => /\ tasks'[r].result = Raise("InvalidCredentialsError")
                       /\ users'[Abc].failed_attempts
                            = users[Abc].failed_attempts + 1
       /\ \A r \in LoginRequests :
            (tasks[r].pc = "idle" /\ tasks'[r].result = Raise("RateLimitError"))
            => users[Abc].failed_attempts >= 4]_vars

\* five wrong-PIN logins of one user, all compared and recorded, none denied
C29_Witness ==
    /\ Ended("InvalidCredentialsError") = LoginRequests
    /\ Ended("RateLimitError") = {}
    /\ users[Abc].failed_attempts = 5
    /\ now = users[Abc].last_fail[1]

----
\* The list routes: each handler asks get_session_user for the user of the
\* request's session cookie and compares it, ignoring case, with the
\* username of the path before it calls the list operation

MaxRouteListId == 1
MaxRouteDays == 2

\* the usernames of the paths requested
RouteUsernames == {AbC, Xyz}

Plan == Text("Plan", 4)

\* (slug, title, content) as submitted to create a list, and to update it
CreateForms == {<<SlugX, Todo, BuyMilk>>}
UpdateForms == {<<SlugX, Plan, BuyMilk>>}

\* the is_public value of the forms
RoutePublic == {TRUE}

\* what get_session_user(request) returns
session_user(cookie) ==
    IF cookie = NoCookie \/ cookie \notin DOMAIN sessions THEN NULL
    ELSE IF now > sessions[cookie].expires THEN NULL
    ELSE Some(sessions[cookie].username)

\* active_sessions after get_session_user(request): an expired entry of the
\* cookie is deleted
session_swept(cookie) ==
    IF cookie # NoCookie /\ cookie \in DOMAIN sessions
        /\ now > sessions[cookie].expires
    THEN DelItem(sessions, cookie)
    ELSE sessions

\* not current_user or current_user.lower() != username.lower()
AccessDenied(current_user, username) ==
    \/ current_user = NULL
    \/ Lower(current_user[1]) # Lower(username)

\* raise HTTPException(status_code=403)
Forbidden(handler, cookie) ==
    /\ sessions' = session_swept(cookie)
    /\ call' = [NoCall EXCEPT !.op = handler, !.args = cookie,
                              !.result = "HTTPException(403)",
                              !.changed = (session_swept(cookie) # sessions)]
    /\ UNCHANGED <<users, lists, views, nextId, now, trail, issued, tasks, plugins>>

\* a handler that asks only whether the request has a session
create_list_handler_any_user(username, cookie, slug, title, content, is_public, maxId) ==
    IF session_user(cookie) = NULL
    THEN Forbidden("create_list_handler", cookie)
    ELSE create_list(username, slug, title, content, is_public, maxId)

\* POST /{username}/create; a ListkyError of create_list renders the form again
create_list_handler(username, cookie, slug, title, content, is_public, maxId) ==
    IF AccessDenied(session_user(cookie), username)
    THEN Forbidden("create_list_handler", cookie)
    ELSE create_list(username, slug, title, content, is_public, maxId)

\* POST /{username}/{slug}/update; a ListkyError of update_list renders the
\* form again, with the row get_list reads
update_list_handler(username, cookie, slug, title, content, is_public) ==
    IF AccessDenied(session_user(cookie), username)
    THEN Forbidden("update_list_handler", cookie)
    ELSE update_list(username, slug, title, content, is_public)

\* POST /{username}/{slug}/delete; ListNotFoundError becomes a 404
delete_list_handler(username, cookie, slug) ==
    IF AccessDenied(session_user(cookie), username)
    THEN Forbidden("delete_list_handler", cookie)
    ELSE delete_list(username, slug)

RouteSignup ==
    \E username \in {Abc, Xyz} : create_user(username, Pin1, Ip1, "g1")

\* the token create_session draws; requests also come with a cookie that
\* was never issued
RouteTokens == {"t1"}

RouteLogin ==
    \E username \in RouteUsernames, token \in RouteTokens :
        login(username, Pin1, Ip1, token, MaxLoginFailed)

RouteCreate ==
    \E username \in RouteUsernames, cookie \in Cookies, form \in CreateForms,
       is_public \in RoutePublic :
        create_list_handler(username, cookie, form[1], form[2], form[3],
                            is_public, MaxRouteListId)

RouteUpdate ==
    \E username \in RouteUsernames, cookie \in Cookies, form \in UpdateForms,
       is_public \in RoutePublic :
        update_list_handler(username, cookie, form[1], form[2], form[3],
                            is_public)

RouteDelete ==
    \E username \in RouteUsernames, cookie \in Cookies, slug \in Slugs :
        delete_list_handler(username, cookie, slug)

RouteLogout == \E token \in Tokens : clear_session(token)

\* a day passes
RouteDay ==
    /\ now < MaxRouteDays * MinutesPerDay
    /\ now' = now + MinutesPerDay
    /\ call' = [NoCall EXCEPT !.op = "tick"]
    /\ UNCHANGED <<users, lists, views, nextId, trail, sessions, issued, tasks, plugins>>

NextRoutes ==
    \/ RouteSignup \/ RouteLogin \/ RouteCreate \/ RouteUpdate \/ RouteDelete
    \/ RouteLogout \/ RouteDay

\* signups, logins and the three list routes, with time passing
SpecRoutes == Init /\ [][NextRoutes]_vars

\* the request has no session that is held and unexpired, or the user of its
\* session is not the username of the path, letter case aside
NotTheOwner(cookie, username) ==
    \/ cookie \notin DOMAIN sessions
    \/ now > sessions[cookie].expires
    \/ Lower(sessions[cookie].username) # Lower(username)

\* the rows a step adds, removes or replaces
RowsTouched == (lists' \ lists) \cup (lists \ lists')

RouteOps ==
    {"create_list_handler", "update_list_handler", "delete_list_handler",
     "create_list", "update_list", "delete_list"}

\* C31: a create, update or delete request whose cookie names no held,
\* unexpired session, or a session of a user other than the path's username
\* (ignoring case), is answered 403 and leaves lists unchanged; every step
\* that changes lists touches only rows of a user who holds an unexpired
\* session.
C31_OwnNamespaceOnly ==
    [][/\ call'.op \in RouteOps =>
            \A username \in RouteUsernames, cookie \in Cookies :
                NotTheOwner(cookie, username) =>
                    /\ \A form \in CreateForms, is_public \in RoutePublic :
                        create_list_handler(username, cookie, form[1], form[2],
                                            form[3], is_public, MaxRouteListId)
                        => /\ call'.result = "HTTPException(403)"
                           /\ lists' = lists
                    /\ \A form \in UpdateForms, is_public \in RoutePublic :
                        update_list_handler(username, cookie, form[1], form[2],
                                            form[3], is_public)
                        => /\ call'.result = "HTTPException(403)"
                           /\ lists' = lists
                    /\ \A slug \in Slugs :
                        delete_list_handler(username, cookie, slug)
                        => /\ call'.result = "HTTPException(403)"
                           /\ lists' = lists
       /\ lists' # lists =>
            \E token \in DOMAIN sessions :
                /\ now <= sessions[token].expires
                /\ \A l \in RowsTouched :
                        l.username = Lower(sessions[token].username)]_vars

\* a request refused although its cookie names an unexpired session: the
\* session is another user's, whose list stands
C31_Witness ==
    /\ call.op \in {"create_list_handler", "update_list_handler", "delete_list_handler"}
    /\ call.result = "HTTPException(403)"
    /\ call.args \in DOMAIN sessions
    /\ now <= sessions[call.args].expires
    /\ \E l \in lists : l.username = sessions[call.args].username

----
\* C32: in every reachable state every user row has failed_attempts >= 0,
\* and failed_attempts = 0 exactly when last_fail is NULL; so no row has
\* failed_attempts >= 4 with last_fail NULL, the case in which
\* check_rate_limit allows a login without looking at the clock.
C32_CounterAndStampAgree ==
    \A u \in DOMAIN users :
        /\ users[u].failed_attempts >= 0
        /\ (users[u].failed_attempts = 0) <=> (users[u].last_fail = NULL)
        /\ ~(users[u].failed_attempts >= LockThreshold /\ users[u].last_fail = NULL)

\* a login that succeeded once the lockout of four failures had passed: the
\* row had a count and a stamp, and has neither now
C32_Witness ==
    /\ call.op = "authenticate_user"
    /\ call.result = "ok"
    /\ call.before # NULL
    /\ call.before[1].failed_attempts >= LockThreshold
    /\ call.before[1].last_fail # NULL
    /\ users[call.value].failed_attempts = 0
    /\ users[call.value].last_fail = NULL

----
\* C33: with logins made one after another, a PIN comparison for a user
\* whose failed_attempts is 4 or more comes more than the lockout window of
\* that count (5, 15 or 60 minutes) after the user's previous failed
\* comparison; a successful login ends the series.
C33_OneGuessPerWindow ==
    [][\A u \in DOMAIN users :
         (/\ IsLogin(u)
          /\ call'.verified
          /\ users[u].failed_attempts >= 4
          /\ trail[u].refused_at # NULL)
         => now - trail[u].refused_at[1] > ClaimWindow(users[u].failed_attempts)]_vars

\* a second wrong guess, made once the 15 minutes of six failures had passed
C33_Witness ==
    /\ call.op = "authenticate_user"
    /\ call.result = "InvalidCredentialsError"
    /\ call.verified
    /\ call.before # NULL
    /\ call.before[1].failed_attempts >= 6
    /\ call.before[1].last_fail # NULL
    /\ call.before[1].last_fail[1] > 0
    /\ now - call.before[1].last_fail[1] > 15

----
\* C34: a login under any spelling of a username is judged on the one row of
\* the lowercased name: while that user is locked out it is refused with
\* RateLimitError and writes nothing, a failed one adds 1 to that row's
\* failed_attempts, and no row is kept under another spelling.
C34_LockoutIgnoresCase ==
    [][/\ call'.op = "authenticate_user" =>
            LET u == Lower(call'.args.username) IN
            u \in DOMAIN users =>
                /\ ~ClaimAllowed(users[u], now)
                    => /\ call'.result = "RateLimitError"
                       /\ users' = users
                /\ call'.result = "InvalidCredentialsError"
                    => /\ users'[u].failed_attempts = users[u].failed_attempts + 1
                       /\ \A v \in DOMAIN users \ {u} : users'[v] = users[v]
       /\ \A name \in DOMAIN users' : name = Lower(name)]_vars

\* a login typed in capitals with the right PIN, refused while the lowercase
\* name is locked out
C34_Witness ==
    /\ call.op = "authenticate_user"
    /\ call.args.username = AbC
    /\ call.result = "RateLimitError"
    /\ call.before # NULL
    /\ PinMatches(call, call.before[1])
    /\ users[Abc].failed_attempts >= 4
    /\ AbC \notin DOMAIN users

----
\* the requests whose PIN was compared and found wrong, the UPDATE still to run
Compared == {r \in LoginRequests : tasks[r].pc = "record" /\ tasks[r].result = Some(FALSE)}

\* the requests that logged in, or are about to record that they did
Succeeded ==
    {r \in LoginRequests :
        \/ tasks[r].pc = "done" /\ tasks[r].result = Return("ok")
        \/ tasks[r].pc = "record" /\ tasks[r].result = Some(TRUE)}

\* C35: with logins of one user interleaved statement by statement and no
\* successful login among them, failed_attempts is at every moment the
\* number of requests that failed on the PIN and recorded it; when all k
\* have ended, it is k higher than at the start.
C35_NoLostIncrement ==
    Succeeded = {} =>
        users[Abc].failed_attempts
            = Cardinality(Ended("InvalidCredentialsError"))

\* two failures are recorded while two more requests, let through and
\* compared before those were written, have their UPDATE still to run
C35_Witness ==
    /\ Succeeded = {}
    /\ users[Abc].failed_attempts = 2
    /\ Cardinality(Ended("InvalidCredentialsError")) = 2
    /\ Cardinality(Compared) >= 2

----
\* the session of token is held and has not expired
ValidSession(map, token, t) == token \in DOMAIN map /\ t <= map[token].expires

\* C36: create_session adds one entry, under a token the map did not hold,
\* and leaves every entry there was as it was, those of the same user
\* included; clear_session of a token leaves every other entry as it was, so
\* the other sessions of the user stay valid.
C36_SessionsIndependent ==
    [][/\ call'.op = "create_session" =>
            LET token == call'.value IN
            /\ token \notin DOMAIN sessions
            /\ DOMAIN sessions' = DOMAIN sessions \cup {token}
            /\ Cardinality(DOMAIN sessions') = Cardinality(DOMAIN sessions) + 1
            /\ \A k \in DOMAIN sessions : sessions'[k] = sessions[k]
       /\ call'.op = "clear_session" =>
            \A k \in DOMAIN sessions \ {call'.args} :
                /\ k \in DOMAIN sessions'
                /\ sessions'[k] = sessions[k]
                /\ ValidSession(sessions, k, now) => ValidSession(sessions', k, now')]_vars

\* a user opens a second session while the first is still valid
C36_Witness ==
    /\ call.op = "create_session"
    /\ \E k \in DOMAIN sessions \ {call.args} :
        /\ sessions[k].username = sessions[call.args].username
        /\ ValidSession(sessions, k, now)
        /\ ValidSession(sessions, call.args, now)
        /\ issued[k].at < issued[call.args].at

----
\* get_trending_lists(db, days, limit=10)
DefaultLimit == 10

\* the lists returned by some result of the trending query at time t, each
\* with its view_count
Trending(db, table, days, t) ==
    {<<row.username, row.slug, row.view_count>> :
        row \in UNION {{rows[i] : i \in DOMAIN rows} :
                        rows \in get_trending_lists(db, table, days, DefaultLimit, t)}}

\* C37: update_list leaves the id, username, slug and created_at of the row
\* it changes, every other row, and the views relation as they were; so when
\* it makes a private list public again, the trending query run next returns
\* the list with every view row of the window counted, those recorded before
\* the list was made private included.
C37_UpdateKeepsIdAndViews ==
    [][call'.op = "update_list" =>
        /\ views' = views
        /\ nextId' = nextId
        /\ {[id |-> l.id, username |-> l.username, slug |-> l.slug,
             created_at |-> l.created_at] : l \in lists'}
           = {[id |-> l.id, username |-> l.username, slug |-> l.slug,
               created_at |-> l.created_at] : l \in lists}
        /\ Cardinality(lists') = Cardinality(lists)
        /\ \A l \in lists' \ lists :
            (l.is_public /\ \E m \in lists : m.id = l.id /\ ~m.is_public)
            => \A days \in TrendDays :
                LET seen == {v.ip_hash : v \in {w \in BagToSet(views) :
                                /\ w.list_id = l.id
                                /\ w.view_date >= Today(now) - days}}
                IN  seen # {} =>
                        <<l.username, l.slug, Cardinality(seen)>>
                            \in Trending(lists', views', days, now')]_vars

\* a list viewed while public, made private, and made public again by the
\* update just run, its view still within the window
C37_Witness ==
    /\ call.op = "update_list"
    /\ call.result = "ok"
    /\ call.before # NULL
    /\ ~call.before[1].is_public
    /\ \E l \in lists :
        /\ l.id = call.before[1].id
        /\ l.is_public
        /\ \E v \in BagToSet(views) :
            v.list_id = l.id /\ v.view_date >= Today(now) - 7

----
\* Lists deleted and created again: public lists are created with one valid
\* form, viewed and deleted, and days pass

MaxRecreateListId == 2

RecreateCreate ==
    \E username \in ListUsernames :
        create_list(username, SlugX, Todo, BuyMilk, TRUE, MaxRecreateListId)

RecreateDelete ==
    \E username \in ListUsernames, slug \in Slugs : delete_list(username, slug)

RecreateView ==
    \E username \in ListUsernames, slug \in Slugs, request \in Requests :
        record_list_view(username, slug, request, "none")

NextRecreate == RecreateCreate \/ RecreateDelete \/ RecreateView \/ NextDay

SpecRecreate == Init /\ [][NextRecreate]_vars

\* the ids that rows of lists or of views carry
IdsInUse(db, table) == {l.id : l \in db} \cup {v.list_id : v \in BagToSet(table)}

\* C38: the id create_list gives a new list is larger than every id a list
\* or a view row carries or carried, the ids of deleted lists included; so
\* no view row refers to the new list, whose count of views is 0 for every
\* window, also when it takes the (username, slug) of a deleted list.
C38_IdsNeverReused ==
    [][/\ \A id \in IdsInUse(lists', views') : id < nextId'
       /\ nextId' >= nextId
       /\ (call'.op = "create_list" /\ call'.result = "ok") =>
            \A l \in lists' \ lists :
                /\ l.id = call'.value
                /\ l.id \notin IdsInUse(lists, views)
                /\ l.id >= nextId
                /\ \A days \in TrendDays :
                    view_count(views', l.id, days, now') = 0]_vars

\* a list created under the (username, slug) of a deleted list, whose view
\* row is still stored: the new list has another id and no view
C38_Witness ==
    /\ call.op = "create_list"
    /\ call.result = "ok"
    /\ \E l \in lists, v \in BagToSet(views) :
        /\ l.id = call.value
        /\ l.username = Abc
        /\ v.list_id < l.id
        /\ v.list_id \notin {m.id : m \in lists}
        /\ lists = {l}
        /\ view_count(views, l.id, 7, now) = 0

====
